---------------------------- MODULE Spec2Model ----------------------------
(***************************************************************************)
(* Model of the translation-key optimizer of webpack-i18n-tools:           *)
(* optimizer/common.js (processChunks and its helpers) as driven by the    *)
(* webpack plugin's processAssets.  Texts are sequences of characters, the *)
(* regular expressions of the source are regular-expression terms that a  *)
(* backtracking matcher evaluates in the priority order of the JavaScript  *)
(* engine.                                                                 *)
(***************************************************************************)
EXTENDS Integers, Sequences, FiniteSets, TLC

(***************************************************************************)
(* Characters.  A character is a one-element string; the non-breaking      *)
(* space and the backtick, which a TLA+ string cannot spell, are the       *)
(* tokens NBSP and BACKTICK.                                               *)
(***************************************************************************)
SQ == "'"
DQ == "\""
BT == "BACKTICK"
BS == "\\"
LF == "\n"
NBSP == "NBSP"
SP == " "

Quotes == {SQ, DQ, BT}
\* The characters the class \s matches, among those the model uses.
WhiteSpace == {SP, LF, NBSP}
\* The characters the class \w matches, among those the model uses.
WordChars ==
    {"a", "b", "c", "d", "e", "f", "g", "h", "i", "j", "k", "l", "m", "n", "o", "p", "q",
     "r", "s", "t", "u", "v", "w", "x", "y", "z", "A", "B", "C", "D", "E", "F", "G", "H",
     "I", "J", "K", "L", "M", "N", "O", "P", "Q", "R", "S", "T", "U", "V", "W", "X", "Y",
     "Z", "0", "1", "2", "3", "4", "5", "6", "7", "8", "9", "_"}

(***************************************************************************)
(* Regular-expression terms.                                               *)
(***************************************************************************)
Chr(cs) == [t |-> "chr", cs |-> cs, neg |-> FALSE]
NotChr(cs) == [t |-> "chr", cs |-> cs, neg |-> TRUE]
AnyChr == NotChr({})
Lit(str) == [t |-> "lit", s |-> str]
Cat(ps) == [t |-> "cat", ps |-> ps]
Alt(ps) == [t |-> "alt", ps |-> ps]
Star(r) == [t |-> "star", r |-> r, lazy |-> FALSE]
LazyStar(r) == [t |-> "star", r |-> r, lazy |-> TRUE]
LazyPlus(r) == Cat(<<r, LazyStar(r)>>)
Opt(r) == [t |-> "opt", r |-> r]
NotAfter(cs) == [t |-> "nlb", cs |-> cs]
Bol == [t |-> "bol"]
Eol == [t |-> "eol"]

\* xs followed by the elements of ys that are not yet in it, in order.
RECURSIVE AppendNew(_, _)
AppendNew(xs, ys) ==
    IF ys = <<>> THEN xs
    ELSE AppendNew(IF \E k \in 1..Len(xs) : xs[k] = Head(ys) THEN xs
                   ELSE Append(xs, Head(ys)), Tail(ys))

(***************************************************************************)
(* Ends(re, s, i): the offsets at which a match of re that starts at       *)
(* offset i of s can end, in the order in which a backtracking matcher     *)
(* tries them (an offset is the number of characters before it).  The head *)
(* is the match the engine reports when nothing follows the expression.    *)
(***************************************************************************)
RECURSIVE Ends(_, _, _)
RECURSIVE EndsFrom(_, _, _)
RECURSIVE EndsAlt(_, _, _)
\* The ends of re started at each offset of the sequence starts, in order.
EndsFrom(re, s, starts) ==
    IF starts = <<>> THEN <<>>
    ELSE AppendNew(Ends(re, s, Head(starts)), EndsFrom(re, s, Tail(starts)))
EndsAlt(ps, s, i) ==
    IF ps = <<>> THEN <<>>
    ELSE AppendNew(Ends(Head(ps), s, i), EndsAlt(Tail(ps), s, i))
Ends(re, s, i) ==
    CASE re.t = "chr" ->
            IF i < Len(s) /\ ((s[i + 1] \in re.cs) # re.neg) THEN <<i + 1>> ELSE <<>>
      [] re.t = "lit" ->
            IF i + Len(re.s) <= Len(s) /\ SubSeq(s, i + 1, i + Len(re.s)) = re.s
            THEN <<i + Len(re.s)>> ELSE <<>>
      [] re.t = "cat" ->
            IF re.ps = <<>> THEN <<i>>
            ELSE EndsFrom(Cat(Tail(re.ps)), s, Ends(Head(re.ps), s, i))
      [] re.t = "alt" -> EndsAlt(re.ps, s, i)
      [] re.t = "star" /\ re.r.t = "chr" ->
            \* a run of n characters of the class: every offset in the run,
            \* the nearest first when lazy, the farthest first when greedy
            LET In(k) == (s[k] \in re.r.cs) # re.r.neg
                n == CHOOSE m \in 0..(Len(s) - i) :
                        /\ \A k \in (i + 1)..(i + m) : In(k)
                        /\ m = Len(s) - i \/ ~In(i + m + 1)
            IN  [k \in 1..(n + 1) |-> IF re.lazy THEN i + k - 1 ELSE i + n + 1 - k]
      [] re.t = "star" /\ re.r.t # "chr" ->
            LET once == SelectSeq(Ends(re.r, s, i), LAMBDA e : e > i)
                more == EndsFrom(re, s, once)
            IN  IF re.lazy THEN AppendNew(<<i>>, more) ELSE AppendNew(more, <<i>>)
      [] re.t = "opt" -> AppendNew(Ends(re.r, s, i), <<i>>)
      [] re.t = "nlb" -> IF i = 0 \/ s[i] \notin re.cs THEN <<i>> ELSE <<>>
      [] re.t = "bol" -> IF i = 0 THEN <<i>> ELSE <<>>
      [] re.t = "eol" -> IF i = Len(s) THEN <<i>> ELSE <<>>

NoMatch == <<>>

\* RegExp.prototype.exec from lastIndex `from`: the leftmost match, as
\* <<start, end>> offsets, or NoMatch.
RECURSIVE Exec(_, _, _)
\* The attempt at offset `from`, whose ends are es: the match, or the search
\* moves one offset on.
ExecAt(re, s, from, es) ==
    IF es # <<>> THEN <<from, Head(es)>> ELSE Exec(re, s, from + 1)
Exec(re, s, from) ==
    IF from > Len(s) THEN NoMatch ELSE ExecAt(re, s, from, Ends(re, s, from))

\* A replacement template: characters, AMP for the whole match ($&) and G1
\* for the first capturing group ($1), which is the match without its first
\* lo and last hi characters.
AMP == "$&"
G1 == "$1"
RECURSIVE Expand(_, _, _, _)
Expand(tpl, m, lo, hi) ==
    IF tpl = <<>> THEN <<>>
    ELSE (CASE Head(tpl) = AMP -> m
            [] Head(tpl) = G1 -> SubSeq(m, 1 + lo, Len(m) - hi)
            [] OTHER -> <<Head(tpl)>>) \o Expand(Tail(tpl), m, lo, hi)

\* String.prototype.replace with a global regular expression.
RECURSIVE ReplaceFrom(_, _, _, _, _, _)
\* The text from offset `from` on, m being the next match from there: an
\* empty match moves the search one character on.
ReplaceMatch(s, re, tpl, lo, hi, from, m) ==
    IF m = NoMatch THEN SubSeq(s, from + 1, Len(s))
    ELSE SubSeq(s, from + 1, m[1])
         \o Expand(tpl, SubSeq(s, m[1] + 1, m[2]), lo, hi)
         \o (IF m[2] > m[1] \/ m[2] = Len(s) THEN <<>> ELSE <<s[m[2] + 1]>>)
         \o ReplaceFrom(s, re, tpl, lo, hi, IF m[2] > m[1] THEN m[2] ELSE m[2] + 1)
ReplaceFrom(s, re, tpl, lo, hi, from) ==
    IF from > Len(s) THEN <<>>
    ELSE ReplaceMatch(s, re, tpl, lo, hi, from, Exec(re, s, from))
ReplaceAll(s, re, tpl, lo, hi) == ReplaceFrom(s, re, tpl, lo, hi, 0)

\* A chain of replace calls: each step is applied to the result of the one
\* before it.
Step(re, tpl, lo, hi) == [re |-> re, tpl |-> tpl, lo |-> lo, hi |-> hi]
RECURSIVE ReplaceEach(_, _)
ReplaceEach(s, steps) ==
    IF steps = <<>> THEN s
    ELSE ReplaceEach(ReplaceAll(s, Head(steps).re, Head(steps).tpl, Head(steps).lo,
                                Head(steps).hi),
                     Tail(steps))

(***************************************************************************)
(* The string normalizer and encoder.                                      *)
(***************************************************************************)
normalizeString(str, isEvalWrapped) ==
    ReplaceEach(str,
        (IF isEvalWrapped
         THEN <<Step(Cat(<<Chr({BS}), Chr({DQ, BS})>>), <<G1>>, 1, 0)>>
         ELSE <<>>)
        \o <<Step(Lit(<<BS, "n">>), <<LF>>, 0, 0),
              Step(Lit(<<BS, "u", "0", "0", "a", "0">>), <<NBSP>>, 0, 0),
              Step(Cat(<<Bol, Chr(Quotes), Star(AnyChr), Chr(Quotes), Eol>>), <<G1>>, 1, 1),
              Step(Cat(<<Chr(Quotes), Star(Chr(WhiteSpace)), Chr({"+"}),
                         Star(Chr(WhiteSpace)), Chr(Quotes)>>), <<>>, 0, 0),
              Step(Cat(<<Chr({BS}), Chr(Quotes)>>), <<G1>>, 1, 0)>>)

encodeAsStringLiteral(str, isEvalWrapped) ==
    <<SQ>>
    \o ReplaceEach(str,
            <<Step(Chr({LF}), <<BS, "n">>, 0, 0),
              Step(Chr({NBSP}), <<BS, "u", "0", "0", "a", "0">>, 0, 0),
              Step(Cat(<<NotAfter({BS}), Chr(Quotes)>>), <<BS, AMP>>, 0, 0)>>
            \o (IF isEvalWrapped THEN <<Step(Chr({DQ, BS}), <<BS, AMP>>, 0, 0)>>
                ELSE <<>>))
    \o <<SQ>>

(***************************************************************************)
(* The regular expressions of the optimizer.                               *)
(***************************************************************************)
matchWhitespace(isEvalWrapped) ==
    IF isEvalWrapped
    THEN Star(Alt(<<Chr(WhiteSpace), Cat(<<Chr({BS}), Chr({"n", "r", "t", "v", "f"})>>)>>))
    ELSE Star(Chr(WhiteSpace))

\* The alternatives of an expected string, one per delimiter.  The escaping
\* of the expression's special characters is left out: a Lit term matches
\* its characters literally.
ExpectedString(escapedString, bs, q) ==
    Alt([k \in 1..3 |->
            Cat(<<IF k = 2 THEN Lit(q) ELSE Chr({<<SQ, DQ, BT>>[k]}),
                  Lit(ReplaceAll(escapedString, Chr({<<SQ, DQ, BT>>[k]}),
                                 bs \o <<<<SQ, DQ, BT>>[k]>>, 0, 0)),
                  IF k = 2 THEN Lit(q) ELSE Chr({<<SQ, DQ, BT>>[k]})>>)])

matchString(expectedString, isEvalWrapped) ==
    LET bs == IF isEvalWrapped THEN <<BS, BS>> ELSE <<BS>>
        q == IF isEvalWrapped THEN <<BS, DQ>> ELSE <<DQ>>
    IN  IF expectedString = <<>>
        THEN Alt(<<Cat(<<Chr({SQ}),
                         LazyStar(Alt(<<Lit(bs \o <<SQ>>), NotChr({SQ})>>)),
                         Chr({SQ})>>),
                   Cat(<<Lit(q),
                         LazyStar(Alt(<<Lit(bs \o q), NotChr({DQ})>>)),
                         Lit(q)>>),
                   Cat(<<Chr({BT}),
                         LazyStar(Alt(<<Lit(bs \o <<BT>>), NotChr({BT})>>)),
                         Chr({BT})>>)>>)
        ELSE ExpectedString(ReplaceEach(expectedString,
                                        <<Step(Chr({BS}), bs, 0, 0),
                                          Step(Chr({DQ}), q, 0, 0),
                                          Step(Chr({LF}), bs \o <<"n">>, 0, 0)>>),
                            bs, q)

\* matchString(null, isEvalWrapped): any string literal.
AnyString == <<>>

\* The three capturing groups of the entry expression: key, colon, value.
generateTranslationEntryRegex(isEvalWrapped) ==
    LET str == matchString(AnyString, isEvalWrapped)
        ws == matchWhitespace(isEvalWrapped)
    IN  <<Alt(<<LazyPlus(NotChr({"{", ",", DQ, SQ, BT, ":"} \cup WhiteSpace)), str>>),
          Cat(<<ws, Chr({":"}), ws>>),
          str>>

generateTranslationObjectRegex(isEvalWrapped) ==
    LET ws == matchWhitespace(isEvalWrapped)
        translationEntry == Cat(generateTranslationEntryRegex(isEvalWrapped))
    IN  Cat(<<Chr({"{"}), ws,
              Star(Cat(<<translationEntry, ws, Chr({","}), ws>>)),
              Opt(Cat(<<translationEntry, ws, Opt(Chr({","})), ws>>)),
              ws, Chr({"}"})>>)

\* The two capturing groups of the usage expression: prefix, key.
generateTranslationUsageRegex(isEvalWrapped) ==
    LET ws == matchWhitespace(isEvalWrapped)
        Word(w) == Alt(<<Lit(w), matchString(w, isEvalWrapped)>>)
        prefixPart ==
            Alt(<<Cat(<<Chr({"$", "."}), Chr({"t"}), Opt(Chr({"e", "c"})), ws,
                        Chr({"("}), ws>>),
                  Cat(<<matchString(<<"i", "1", "8", "n">>, isEvalWrapped), ws,
                        Chr({","}), LazyStar(AnyChr),
                        Word(<<"a", "t", "t", "r", "s">>), ws, Chr({":"}),
                        LazyStar(AnyChr),
                        Word(<<"p", "a", "t", "h">>), ws, Chr({":"}), ws>>),
                  Cat(<<Chr(WordChars), Star(Chr(WordChars)), Chr({"("}), ws,
                        Chr(WordChars), Star(Chr(WordChars)), ws, Chr({","}), ws,
                        Chr({"{"}), LazyStar(NotChr({"}"})),
                        Word(<<"k", "e", "y", "p", "a", "t", "h">>), ws, Chr({":"}),
                        ws>>)>>)
        str == matchString(AnyString, isEvalWrapped)
        translationKeyPart == Cat(<<Star(Cat(<<str, ws, Chr({"+"}), ws>>)), str>>)
    IN  <<prefixPart, translationKeyPart>>

(***************************************************************************)
(* exec of an expression given as the sequence of its capturing groups:    *)
(* <<start, end of group 1, ..., end of group n>> of the leftmost match at *)
(* or after lastIndex, the first in backtracking order, or NoMatch.        *)
(***************************************************************************)
\* What an attempt that failed yields instead of the ends of the groups.
Fail == <<-1>>
\* The offset e before the ends r found after it, or else the next attempt.
Found(e, r, otherwise) == IF r # Fail THEN <<e>> \o r ELSE otherwise

RECURSIVE MatchGroups(_, _, _)
RECURSIVE TryEnds(_, _, _)
\* The first of the ends es of a group from which the groups after it match.
TryEnds(es, groups, s) ==
    IF es = <<>> THEN Fail
    ELSE Found(Head(es), MatchGroups(groups, s, Head(es)), TryEnds(Tail(es), groups, s))
\* The ends of the groups when they match in sequence from offset i.
MatchGroups(groups, s, i) ==
    IF groups = <<>> THEN <<>>
    ELSE TryEnds(Ends(Head(groups), s, i), Tail(groups), s)

RECURSIVE ExecGroups(_, _, _)
ExecGroups(groups, s, lastIndex) ==
    IF lastIndex > Len(s) THEN NoMatch
    ELSE Found(lastIndex, MatchGroups(groups, s, lastIndex),
               ExecGroups(groups, s, lastIndex + 1))

\* Every match of a global expression over s, as the loop `while ((match =
\* regex.exec(s)) !== null)` sees them; an empty match advances lastIndex.
RECURSIVE AllMatches(_, _, _)
MatchesAfter(groups, s, m) ==
    IF m = NoMatch THEN <<>>
    ELSE <<m>> \o AllMatches(groups, s, IF m[Len(m)] = m[1] THEN m[1] + 1 ELSE m[Len(m)])
AllMatches(groups, s, lastIndex) ==
    MatchesAfter(groups, s, ExecGroups(groups, s, lastIndex))

(***************************************************************************)
(* Library semantics the optimizer relies on: JavaScript string literals,  *)
(* JSON5.parse of a dictionary literal, Number.prototype.toString and      *)
(* ReplaceSource of webpack-sources.                                       *)
(***************************************************************************)
\* The characters of the body of a string literal, escape sequences resolved.
RECURSIVE Unescape(_)
Unescape(s) ==
    IF s = <<>> THEN <<>>
    ELSE IF Head(s) = BS /\ Len(s) >= 2
    THEN IF s[2] = "n" THEN <<LF>> \o Unescape(SubSeq(s, 3, Len(s)))
         ELSE IF Len(s) >= 6 /\ SubSeq(s, 2, 6) = <<"u", "0", "0", "a", "0">>
         THEN <<NBSP>> \o Unescape(SubSeq(s, 7, Len(s)))
         ELSE <<s[2]>> \o Unescape(SubSeq(s, 3, Len(s)))
    ELSE <<Head(s)>> \o Unescape(Tail(s))

\* The value of a key or value token of an object literal: a string literal
\* evaluates to its unescaped body, a bare key to itself.
TokenValue(tok) ==
    IF tok # <<>> /\ Head(tok) \in Quotes
    THEN Unescape(SubSeq(tok, 2, Len(tok) - 1))
    ELSE tok

\* Object property assignment on a list of <<key, value>> entries kept in
\* property order: a new key is appended, an existing key keeps its place.
SetProperty(obj, key, value) ==
    IF \E k \in 1..Len(obj) : obj[k][1] = key
    THEN [k \in 1..Len(obj) |-> IF obj[k][1] = key THEN <<key, value>> ELSE obj[k]]
    ELSE Append(obj, <<key, value>>)
HasProperty(obj, key) == \E k \in 1..Len(obj) : obj[k][1] = key
GetProperty(obj, key) == obj[CHOOSE k \in 1..Len(obj) : obj[k][1] = key][2]
\* Object.keys
Keys(obj) == [k \in 1..Len(obj) |-> obj[k][1]]
KeySet(obj) == {obj[k][1] : k \in 1..Len(obj)}

\* The object a dictionary literal denotes, from the matches of the entry
\* expression over its text.
RECURSIVE ObjectOf(_, _, _)
ObjectOf(text, matches, obj) ==
    IF matches = <<>> THEN obj
    ELSE LET m == Head(matches)
         IN  ObjectOf(text, Tail(matches),
                      SetProperty(obj, TokenValue(SubSeq(text, m[1] + 1, m[2])),
                                  TokenValue(SubSeq(text, m[3] + 1, m[4]))))

Null == <<"null">>
\* JSON5.parse of the dictionary literal found in the module code (direct
\* dialect); Null when the text is 'null'.
JSON5Parse(text) ==
    IF text = Null THEN Null
    ELSE ObjectOf(text, AllMatches(generateTranslationEntryRegex(FALSE), text, 0), <<>>)

\* Number.prototype.toString for a natural number.
Digits == <<"0", "1", "2", "3", "4", "5", "6", "7", "8", "9">>
RECURSIVE toString(_)
toString(n) == IF n < 10 THEN <<Digits[n + 1]>>
               ELSE toString(n \div 10) \o <<Digits[(n % 10) + 1]>>

\* ReplaceSource: replace(start, end, content) and insert(pos, content), the
\* latter recorded as a replacement that ends before it starts.
Replacement(start, end, content) == [start |-> start, end |-> end, content |-> content]
Insertion(pos, content) == Replacement(pos, pos - 1, content)
\* Replacements sorted by start, then end, then order of recording.
Before(a, ia, b, ib) ==
    \/ a.start < b.start
    \/ a.start = b.start /\ a.end < b.end
    \/ a.start = b.start /\ a.end = b.end /\ ia < ib
SortReplacements(rs) ==
    LET rank(k) == Cardinality({j \in 1..Len(rs) : Before(rs[j], j, rs[k], k)})
    IN  [n \in 1..Len(rs) |-> rs[CHOOSE k \in 1..Len(rs) : rank(k) = n - 1]]
RECURSIVE ApplySorted(_, _, _)
ApplySorted(text, rs, pos) ==
    IF rs = <<>> THEN SubSeq(text, pos + 1, Len(text))
    ELSE LET r == Head(rs)
         IN  SubSeq(text, pos + 1, r.start) \o r.content
             \o ApplySorted(text, Tail(rs), IF r.end + 1 > pos THEN r.end + 1 ELSE pos)
\* ReplaceSource.source(): the original text with the replacements applied.
SourceOf(text, rs) == ApplySorted(text, SortReplacements(rs), 0)

(***************************************************************************)
(* parseLanguageChunk                                                      *)
(***************************************************************************)
\* String.prototype.match without the g flag: the matched text and its
\* index; found is FALSE for a null result.
MatchResult(text, m) ==
    IF m = NoMatch THEN [found |-> FALSE, text |-> <<>>, index |-> 0]
    ELSE [found |-> TRUE, text |-> SubSeq(text, m[1] + 1, m[2]), index |-> m[1]]
MatchOf(re, text) == MatchResult(text, Exec(re, text, 0))

\* `match?.[0] || 'null'`
TextOrNull(match) == IF match.found THEN match.text ELSE Null

\* The translations parsed from the less processed module code.
ParsedTranslations(languageChunk) ==
    JSON5Parse(TextOrNull(MatchOf(generateTranslationObjectRegex(FALSE),
                                  languageChunk.moduleCode)))

\* What parseLanguageChunk yields when it throws 'Failed to parse language
\* file.'
Throws == [throws |-> TRUE]
\* The checks and the result of parseLanguageChunk, given the match of the
\* object expression in the chunk code and the parsed translations.
ParsedLanguageChunkInfo(languageChunk, match, translations) ==
    IF \/ ~languageChunk.isString
       \/ ~match.found
       \/ match.index = 0
       \/ translations = Null
    THEN Throws
    ELSE [throws |-> FALSE,
          filename |-> languageChunk.filename,
          code |-> languageChunk.code,
          translations |-> translations,
          translationsCode |-> match.text,
          translationsCodePosition |-> match.index]

parseLanguageChunk(languageChunk, isEvalWrapped) ==
    ParsedLanguageChunkInfo(languageChunk,
                            MatchOf(generateTranslationObjectRegex(isEvalWrapped),
                                    languageChunk.code),
                            ParsedTranslations(languageChunk))

(***************************************************************************)
(* optimizeChunks: the reference artifact, the key index, the fallbacks    *)
(***************************************************************************)
\* path.basename
RECURSIVE basename(_)
basename(filename) ==
    IF \E k \in 1..Len(filename) : filename[k] = "/"
    THEN basename(Tail(filename)) ELSE filename

\* A variant that looks for en after a dash or a dot.
IsReferenceNameAfterDash(name) ==
    \E k \in 2..Len(name) :
        /\ k + 1 <= Len(name)
        /\ name[k] = "e" /\ name[k + 1] = "n"
        /\ name[k - 1] \in {"-", "."}

\* /\ben[-.]/.test(name)
IsReferenceName(name) ==
    \E k \in 1..Len(name) :
        /\ k + 2 <= Len(name)
        /\ name[k] = "e" /\ name[k + 1] = "n" /\ name[k + 2] \in {"-", "."}
        /\ (k = 1 \/ name[k - 1] \notin WordChars)

\* A variant that takes the first language chunk for the reference.
FirstLanguageChunk(infos) == IF Len(infos) > 0 THEN 1 ELSE 0
\* A variant that takes the last reference artifact.
LastReferenceLanguageChunk(infos) ==
    IF \E k \in 1..Len(infos) : IsReferenceName(basename(infos[k].filename))
    THEN CHOOSE k \in 1..Len(infos) :
            /\ IsReferenceName(basename(infos[k].filename))
            /\ \A j \in (k + 1)..Len(infos) : ~IsReferenceName(basename(infos[j].filename))
    ELSE 0
\* Array.prototype.find: the position of the first reference artifact, or 0.
ReferenceLanguageChunk(infos) ==
    IF \E k \in 1..Len(infos) : IsReferenceName(basename(infos[k].filename))
    THEN CHOOSE k \in 1..Len(infos) :
            /\ IsReferenceName(basename(infos[k].filename))
            /\ \A j \in 1..(k - 1) : ~IsReferenceName(basename(infos[j].filename))
    ELSE 0

\* A variant that counts the entries from one.
EntryOrdinalFromOne(n) == n
\* The ordinal the forEach callback stores for the entry at position n
\* (1-based) of Object.entries: its forEach index.
EntryOrdinal(n) == n - 1

\* The forEach loop over the entries of the reference translations, from
\* entry n on: acc holds the index map and the fallback table.
RECURSIVE IndexEntries(_, _, _)
IndexEntries(entries, n, acc) ==
    IF n > Len(entries) THEN acc
    ELSE LET normalizedKey == normalizeString(entries[n][1], FALSE)
         IN  IndexEntries(entries, n + 1,
                [map |-> SetProperty(acc.map, normalizedKey, EntryOrdinal(n)),
                 fallback |-> SetProperty(acc.fallback, normalizedKey,
                                          normalizeString(entries[n][2], FALSE))])
BuildIndex(translations) == IndexEntries(translations, 1, [map |-> <<>>, fallback |-> <<>>])

(***************************************************************************)
(* optimizeLanguageChunk                                                   *)
(***************************************************************************)
\* `fallbackTranslations[key] || key`
FallbackOf(fallbackTranslations, key) ==
    IF HasProperty(fallbackTranslations, key) /\ GetProperty(fallbackTranslations, key) # <<>>
    THEN GetProperty(fallbackTranslations, key) ELSE key

\* /,\s*};?$/.test(translationsCode)
HasTrailingComma(translationsCode) ==
    Exec(Cat(<<Chr({","}), Star(Chr(WhiteSpace)), Chr({"}"}), Opt(Chr({";"})), Eol>>),
         translationsCode, 0) # NoMatch

\* The insertions for the missing keys, in the order of the index keys.
RECURSIVE FallbackInsertions(_, _, _, _, _, _)
FallbackInsertions(missing, insertionPosition, hasTrailingComma, map, fallback, isEvalWrapped) ==
    IF missing = <<>> THEN <<>>
    ELSE <<Insertion(insertionPosition,
                     (IF hasTrailingComma THEN <<>> ELSE <<",">>)
                     \o toString(GetProperty(map, Head(missing))) \o <<":">>
                     \o encodeAsStringLiteral(FallbackOf(fallback, Head(missing)),
                                              isEvalWrapped))>>
         \o FallbackInsertions(Tail(missing), insertionPosition, FALSE, map, fallback,
                               isEvalWrapped)

\* A variant whose key replacement ends one character after the key.
EntryEditsEndExclusive(matchPosition, matchedTranslationKey, matchedDoubleColon, matchedTranslation, translationKey, map, fallback, isEvalWrapped) ==
    <<Replacement(matchPosition, matchPosition + Len(matchedTranslationKey),
                  toString(GetProperty(map, translationKey)))>>
    \o (IF Len(matchedTranslation) = 2
        THEN <<Replacement(matchPosition + Len(matchedTranslationKey)
                               + Len(matchedDoubleColon),
                           matchPosition + Len(matchedTranslationKey)
                               + Len(matchedDoubleColon) + Len(matchedTranslation) - 1,
                           encodeAsStringLiteral(FallbackOf(fallback, translationKey),
                                                 isEvalWrapped))>>
        ELSE <<>>)

\* The edits of one entry: matchedTranslationKey at matchPosition replaced by
\* its ordinal, and an empty translation replaced by the fallback.
EntryEdits(matchPosition, matchedTranslationKey, matchedDoubleColon, matchedTranslation, translationKey, map, fallback, isEvalWrapped) ==
    <<Replacement(matchPosition, matchPosition + Len(matchedTranslationKey) - 1,
                  toString(GetProperty(map, translationKey)))>>
    \o (IF Len(matchedTranslation) = 2
        THEN <<Replacement(matchPosition + Len(matchedTranslationKey)
                               + Len(matchedDoubleColon),
                           matchPosition + Len(matchedTranslationKey)
                               + Len(matchedDoubleColon) + Len(matchedTranslation) - 1,
                           encodeAsStringLiteral(FallbackOf(fallback, translationKey),
                                                 isEvalWrapped))>>
        ELSE <<>>)

\* The entry loop over the matches, then the insertions for the keys still
\* missing: rs holds the replacements recorded, missing the index keys no
\* entry had so far.
RECURSIVE EntryLoop(_, _, _, _, _, _, _)
\* A variant that takes an entry the index lacks for the first index key no
\* entry had so far.
EntryStepCountsStale(info, matches, map, fallback, isEvalWrapped, rs, missing, translationKey) ==
    IF ~HasProperty(map, translationKey)
    THEN EntryLoop(info, Tail(matches), map, fallback, isEvalWrapped, rs,
                   IF missing = <<>> THEN missing ELSE Tail(missing))
    ELSE EntryLoop(info, Tail(matches), map, fallback, isEvalWrapped,
            rs \o EntryEdits(info.translationsCodePosition + Head(matches)[1],
                     SubSeq(info.translationsCode, Head(matches)[1] + 1, Head(matches)[2]),
                     SubSeq(info.translationsCode, Head(matches)[2] + 1, Head(matches)[3]),
                     SubSeq(info.translationsCode, Head(matches)[3] + 1, Head(matches)[4]),
                     translationKey, map, fallback, isEvalWrapped),
            SelectSeq(missing, LAMBDA k : k # translationKey))
\* One entry, translationKey being its normalized key.
EntryStep(info, matches, map, fallback, isEvalWrapped, rs, missing, translationKey) ==
    IF ~HasProperty(map, translationKey)
    THEN EntryLoop(info, Tail(matches), map, fallback, isEvalWrapped, rs, missing)
    ELSE EntryLoop(info, Tail(matches), map, fallback, isEvalWrapped,
            rs \o EntryEdits(info.translationsCodePosition + Head(matches)[1],
                     SubSeq(info.translationsCode, Head(matches)[1] + 1, Head(matches)[2]),
                     SubSeq(info.translationsCode, Head(matches)[2] + 1, Head(matches)[3]),
                     SubSeq(info.translationsCode, Head(matches)[3] + 1, Head(matches)[4]),
                     translationKey, map, fallback, isEvalWrapped),
            SelectSeq(missing, LAMBDA k : k # translationKey))
EntryLoop(info, matches, map, fallback, isEvalWrapped, rs, missing) ==
    IF matches = <<>>
    THEN rs \o FallbackInsertions(missing,
                   info.translationsCodePosition + Len(info.translationsCode) - 1,
                   HasTrailingComma(info.translationsCode), map, fallback, isEvalWrapped)
    ELSE EntryStep(info, matches, map, fallback, isEvalWrapped, rs, missing,
                   normalizeString(SubSeq(info.translationsCode, Head(matches)[1] + 1,
                                          Head(matches)[2]),
                                   isEvalWrapped))

\* The replacements optimizeLanguageChunk records on the chunk's source.
optimizeLanguageChunk(info, map, fallback, isEvalWrapped) ==
    EntryLoop(info,
              AllMatches(generateTranslationEntryRegex(isEvalWrapped),
                         info.translationsCode, 0),
              map, fallback, isEvalWrapped, <<>>, Keys(map))

(***************************************************************************)
(* optimizeTranslationUsages                                               *)
(***************************************************************************)
\* The loop over the usage matches: acc is [rs, missing, used].
RECURSIVE UsageLoop(_, _, _, _, _)
\* A variant that marks a key of the index used and leaves its literal.
UsageStepKeepsKey(originalCode, matches, map, isEvalWrapped, acc, normalizedTranslationKey) ==
    UsageLoop(originalCode, Tail(matches), map, isEvalWrapped,
        IF ~HasProperty(map, normalizedTranslationKey)
        THEN [acc EXCEPT !.missing = @ \cup {normalizedTranslationKey}]
        ELSE [acc EXCEPT !.used = @ \cup {normalizedTranslationKey}])
\* A variant that does not report a key the index lacks.
UsageStepDropsMissing(originalCode, matches, map, isEvalWrapped, acc, normalizedTranslationKey) ==
    UsageLoop(originalCode, Tail(matches), map, isEvalWrapped,
        IF ~HasProperty(map, normalizedTranslationKey)
        THEN acc
        ELSE [rs |-> Append(acc.rs,
                        Replacement(Head(matches)[2], Head(matches)[3] - 1,
                            <<SQ>> \o toString(GetProperty(map, normalizedTranslationKey))
                            \o <<SQ>>)),
              missing |-> acc.missing,
              used |-> acc.used \cup {normalizedTranslationKey}])
\* A variant that replaces a key of the index without marking it used.
UsageStepForgetsUsed(originalCode, matches, map, isEvalWrapped, acc, normalizedTranslationKey) ==
    UsageLoop(originalCode, Tail(matches), map, isEvalWrapped,
        IF ~HasProperty(map, normalizedTranslationKey)
        THEN [acc EXCEPT !.missing = @ \cup {normalizedTranslationKey}]
        ELSE [acc EXCEPT !.rs = Append(@,
                        Replacement(Head(matches)[2], Head(matches)[3] - 1,
                            <<SQ>> \o toString(GetProperty(map, normalizedTranslationKey))
                            \o <<SQ>>))])
\* A variant that writes the ordinal as a number.
UsageStepWritesNumber(originalCode, matches, map, isEvalWrapped, acc, normalizedTranslationKey) ==
    UsageLoop(originalCode, Tail(matches), map, isEvalWrapped,
        IF ~HasProperty(map, normalizedTranslationKey)
        THEN [acc EXCEPT !.missing = @ \cup {normalizedTranslationKey}]
        ELSE [rs |-> Append(acc.rs,
                        Replacement(Head(matches)[2], Head(matches)[3] - 1,
                            toString(GetProperty(map, normalizedTranslationKey)))),
              missing |-> acc.missing,
              used |-> acc.used \cup {normalizedTranslationKey}])
\* One usage, normalizedTranslationKey being its normalized key: a key the
\* index lacks is missing, another is replaced by its quoted ordinal.
UsageStep(originalCode, matches, map, isEvalWrapped, acc, normalizedTranslationKey) ==
    UsageLoop(originalCode, Tail(matches), map, isEvalWrapped,
        IF ~HasProperty(map, normalizedTranslationKey)
        THEN [acc EXCEPT !.missing = @ \cup {normalizedTranslationKey}]
        ELSE [rs |-> Append(acc.rs,
                        Replacement(Head(matches)[2], Head(matches)[3] - 1,
                            <<SQ>> \o toString(GetProperty(map, normalizedTranslationKey))
                            \o <<SQ>>)),
              missing |-> acc.missing,
              used |-> acc.used \cup {normalizedTranslationKey}])
\* A variant that looks up the first of the concatenated literals of a key.
UsageLoopOfFirstLiteral(originalCode, matches, map, isEvalWrapped, acc) ==
    IF matches = <<>> THEN acc
    ELSE UsageStep(originalCode, matches, map, isEvalWrapped, acc,
                   normalizeString(
                       MatchOf(matchString(AnyString, isEvalWrapped),
                               SubSeq(originalCode, Head(matches)[2] + 1,
                                      Head(matches)[3])).text,
                       isEvalWrapped))
UsageLoop(originalCode, matches, map, isEvalWrapped, acc) ==
    IF matches = <<>> THEN acc
    ELSE UsageStep(originalCode, matches, map, isEvalWrapped, acc,
                   normalizeString(SubSeq(originalCode, Head(matches)[2] + 1,
                                          Head(matches)[3]),
                                   isEvalWrapped))

\* A variant that scans the bytes of a binary chunk as it scans a string.
optimizeTranslationUsagesOfBytes(chunkInfo, map, isEvalWrapped) ==
    UsageLoop(chunkInfo.code,
              AllMatches(generateTranslationUsageRegex(isEvalWrapped), chunkInfo.code, 0),
              map, isEvalWrapped, [rs |-> <<>>, missing |-> {}, used |-> {}])
\* [rs, missing, used]: the replacements recorded on the chunk's source and
\* the two sets returned.  A binary chunk returns before any of it.
optimizeTranslationUsages(chunkInfo, map, isEvalWrapped) ==
    IF ~chunkInfo.isString THEN [rs |-> <<>>, missing |-> {}, used |-> {}]
    ELSE UsageLoop(chunkInfo.code,
                   AllMatches(generateTranslationUsageRegex(isEvalWrapped), chunkInfo.code, 0),
                   map, isEvalWrapped, [rs |-> <<>>, missing |-> {}, used |-> {}])

(***************************************************************************)
(* reportMissingAndUnusedTranslations                                      *)
(***************************************************************************)
\* A variant that reports the missing translations only.
WarnMessageOfMissing(missing, unused) ==
    IF missing # {}
    THEN << [part |-> "missing", keys |-> missing], [part |-> "hint", keys |-> {}] >>
    ELSE <<>>

\* The warning message, as the parts it is concatenated from; << >> is ''.
WarnMessage(missing, unused) ==
    (IF missing # {} THEN << [part |-> "missing", keys |-> missing] >> ELSE <<>>)
    \o (IF unused # {} THEN << [part |-> "unused", keys |-> unused] >> ELSE <<>>)
    \o (IF missing # {} \/ unused # {} THEN << [part |-> "hint", keys |-> {}] >> ELSE <<>>)

(***************************************************************************)
(* The artifacts of a build.  The host hands processChunks the language    *)
(* chunks (filename, chunk code, module code) and the other chunks; with   *)
(* an eval devtool the chunk code is the payload of a string literal.      *)
(***************************************************************************)
\* Bound: the number of entries of the reference dictionaries that are drawn
\* from ReferenceEntries.
MaxEntries == 1

\* The escaping of code wrapped into a string passed to eval.
RECURSIVE EvalEscape(_)
EvalEscape(text) ==
    IF text = <<>> THEN <<>>
    ELSE (CASE Head(text) = DQ -> <<BS, DQ>>
            [] Head(text) = BS -> <<BS, BS>>
            [] Head(text) = LF -> <<BS, "n">>
            [] OTHER -> <<Head(text)>>) \o EvalEscape(Tail(text))
ChunkCode(text, isEvalWrapped) ==
    IF isEvalWrapped THEN <<"e", "v", "a", "l", "(", DQ>> \o EvalEscape(text) \o <<DQ, ")">>
    ELSE text

EnPo == <<"e", "n", "-", "p", "o", ".", "j", "s">>
DePo == <<"d", "e", "-", "p", "o", ".", "j", "s">>
AppJs == <<"a", "p", "p", ".", "j", "s">>
LibJs == <<"l", "i", "b", ".", "j", "s">>

Entry(k, v) == <<k, v>>
RECURSIVE JoinEntries(_)
JoinEntries(entries) ==
    IF entries = <<>> THEN <<>>
    ELSE Head(entries)[1] \o <<":">> \o Head(entries)[2]
         \o (IF Len(entries) > 1 THEN <<",">> ELSE <<>>) \o JoinEntries(Tail(entries))
\* The dictionary literal of the entries, as the loader writes it.
DictionaryText(entries, trailingComma) ==
    <<"{">> \o JoinEntries(entries) \o (IF trailingComma THEN <<",">> ELSE <<>>) \o <<"}">>

\* A language chunk: `e=<dictionary>;`, built from module code `e=<dictionary>`.
LanguageChunk(filename, dictionaryText, isEvalWrapped) ==
    [filename |-> filename, isString |-> TRUE,
     code |-> ChunkCode(<<"e", "=">> \o dictionaryText \o <<";">>, isEvalWrapped),
     moduleCode |-> <<"e", "=">> \o dictionaryText]
\* A chunk that bundles something else than one dictionary of strings.
BundledChunk(filename, isEvalWrapped) ==
    LanguageChunk(filename, <<"{", "a", ":", "1", "}">>, isEvalWrapped)
OtherChunk(filename, text, isEvalWrapped) ==
    [filename |-> filename, isString |-> TRUE, code |-> ChunkCode(text, isEvalWrapped)]

\* Entries of reference dictionaries: a:"A", "'a'":"B", 'b':'C'.
ReferenceEntries ==
    { Entry(<<"a">>, <<DQ, "A", DQ>>),
      Entry(<<DQ, SQ, "a", SQ, DQ>>, <<DQ, "B", DQ>>),
      Entry(<<SQ, "b", SQ>>, <<SQ, "C", SQ>>) }
\* hello:"Hello",bye:"Bye"
HelloBye == << Entry(<<"h", "e", "l", "l", "o">>, <<DQ, "H", "e", "l", "l", "o", DQ>>),
               Entry(<<"b", "y", "e">>, <<DQ, "B", "y", "e", DQ>>) >>
\* hello:"Hola"
Hola == << Entry(<<"h", "e", "l", "l", "o">>, <<DQ, "H", "o", "l", "a", DQ>>) >>
\* a:"A","'a'":"B": two entries whose keys normalize to a.
SameKeyTwice == << Entry(<<"a">>, <<DQ, "A", DQ>>),
                   Entry(<<DQ, SQ, "a", SQ, DQ>>, <<DQ, "B", DQ>>) >>
ReferenceDictionaries ==
    {DictionaryText(es, FALSE) :
        es \in UNION {[1..n -> ReferenceEntries] : n \in 0..MaxEntries}}
    \cup {DictionaryText(HelloBye, FALSE), DictionaryText(SameKeyTwice, FALSE)}
\* Dictionaries of another language: {}, {a:"X"}, {"b":'',c:"Z"}, {a:"X",}
\* and {hello:"Hola"}.
OtherDictionaries ==
    { DictionaryText(<<>>, FALSE),
      DictionaryText(<<Entry(<<"a">>, <<DQ, "X", DQ>>)>>, FALSE),
      DictionaryText(<<Entry(<<DQ, "b", DQ>>, <<SQ, SQ>>),
                       Entry(<<"c">>, <<DQ, "Z", DQ>>)>>, FALSE),
      DictionaryText(<<Entry(<<"a">>, <<DQ, "X", DQ>>)>>, TRUE),
      DictionaryText(Hola, FALSE) }

ReferenceChunks(w) == {LanguageChunk(EnPo, d, w) : d \in ReferenceDictionaries}
OtherLanguageChunks(w) ==
    {LanguageChunk(DePo, d, w) : d \in OtherDictionaries} \cup {BundledChunk(DePo, w)}
\* The lists of language chunks of a build.
LanguageChunkLists(w) ==
    { <<>> }
    \cup {<<r>> : r \in ReferenceChunks(w)}
    \cup {<<o>> : o \in OtherLanguageChunks(w)}
    \cup {<<r, o>> : r \in ReferenceChunks(w), o \in OtherLanguageChunks(w)}
    \cup {<<o, r>> : r \in ReferenceChunks(w), o \in OtherLanguageChunks(w)}

\* $t('a')
UsesA == <<"$", "t", "(", SQ, "a", SQ, ")">>
\* $t("b");$t('m')
UsesBM == <<"$", "t", "(", DQ, "b", DQ, ")", ";", "$", "t", "(", SQ, "m", SQ, ")">>
\* $t('hello');$t('missing')
UsesHelloMissing ==
    <<"$", "t", "(", SQ, "h", "e", "l", "l", "o", SQ, ")", ";",
      "$", "t", "(", SQ, "m", "i", "s", "s", "i", "n", "g", SQ, ")">>
\* The lists of other chunks of a build.
\* $t('a'+'b');$t('hel' + 'lo')
UsesConcatenated ==
    <<"$", "t", "(", SQ, "a", SQ, "+", SQ, "b", SQ, ")", ";",
      "$", "t", "(", SQ, "h", "e", "l", SQ, " ", "+", " ", SQ, "l", "o", SQ, ")">>
OtherChunkLists(w) ==
    { <<>>,
      <<OtherChunk(AppJs, UsesA, w)>>,
      <<OtherChunk(AppJs, UsesBM, w)>>,
      <<OtherChunk(AppJs, UsesA, w), OtherChunk(LibJs, UsesBM, w)>>,
      <<OtherChunk(AppJs, UsesHelloMissing, w)>>,
      <<OtherChunk(AppJs, UsesConcatenated, w)>> }

(***************************************************************************)
(* processAssets: the assets of the compilation and their categories.      *)
(***************************************************************************)
\* String.prototype.endsWith and String.prototype.includes
endsWith(s, t) == Len(s) >= Len(t) /\ SubSeq(s, Len(s) - Len(t) + 1, Len(s)) = t
includes(s, t) == \E k \in 0..(Len(s) - Len(t)) : SubSeq(s, k + 1, k + Len(t)) = t

\* /-po(?:-legacy)?(?:\.[^.]*)?\.js$/
LanguageFileRegex ==
    Cat(<<Lit(<<"-", "p", "o">>),
          Opt(Lit(<<"-", "l", "e", "g", "a", "c", "y">>)),
          Opt(Cat(<<Chr({"."}), Star(NotChr({"."}))>>)),
          Lit(<<".", "j", "s">>),
          Eol>>)
IsLanguageFile(filename) == Exec(LanguageFileRegex, filename, 0) # NoMatch
\* The assets the loop does not skip.
IsCategorized(filename) ==
    /\ endsWith(filename, <<".", "j", "s">>)
    /\ ~includes(filename, <<"c", "h", "u", "n", "k", "-", "v", "e", "n", "d", "o", "r", "s">>)
\* The two lists the loop over the assets pushes to, in the order of the assets.
LanguageAssets(entries) ==
    SelectSeq(entries, LAMBDA a : IsCategorized(a.filename) /\ IsLanguageFile(a.filename))
OtherAssets(entries) ==
    SelectSeq(entries, LAMBDA a : IsCategorized(a.filename) /\ ~IsLanguageFile(a.filename))

DePoLegacy == <<"d", "e", "-", "p", "o", "-", "l", "e", "g", "a", "c", "y", ".", "j", "s">>
DePoHashed == <<"d", "e", "-", "p", "o", ".", "4", "f", ".", "j", "s">>
DePoTwoSegments == <<"d", "e", "-", "p", "o", ".", "4", "f", ".", "m", ".", "j", "s">>
DePoUpperCase == <<"D", "E", "-", "P", "O", ".", "j", "s">>
DePoCss == <<"d", "e", "-", "p", "o", ".", "c", "s", "s">>
GreenPo == <<"g", "r", "e", "e", "n", "-", "p", "o", ".", "j", "s">>
LangEnPo == <<"j", "s", "/", "l", "a", "n", "g", "-", "e", "n", "-", "p", "o", ".", "j", "s">>
PoEnJs == <<"p", "o", "-", "e", "n", "s", "-", "p", "o", ".", "j", "s">>
ChunkVendorsJs ==
    <<"c", "h", "u", "n", "k", "-", "v", "e", "n", "d", "o", "r", "s", ".", "j", "s">>
AppCss == <<"a", "p", "p", ".", "c", "s", "s">>
\* $t('hello')
UsesHello == <<"$", "t", "(", SQ, "h", "e", "l", "l", "o", SQ, ")">>
\* h(x,{a:$t('a'),keypath:'a'}): a call inside the props before the keypath
\* of an i18n-t component.
UsesInsideComponent ==
    <<"h", "(", "x", ",", "{", "a", ":", "$", "t", "(", SQ, "a", SQ, ")",
      ",", "k", "e", "y", "p", "a", "t", "h", ":", SQ, "a", SQ, "}", ")">>
\* 'i18n',$t('a'),attrs:{path:'a'}: a call between the marker of an i18n
\* component and its path.
UsesBeforePath ==
    <<SQ, "i", "1", "8", "n", SQ, ",", "$", "t", "(", SQ, "a", SQ, ")", ",",
      "a", "t", "t", "r", "s", ":", "{", "p", "a", "t", "h", ":", SQ, "a", SQ, "}">>
EnPoLegacy == <<"e", "n", "-", "p", "o", "-", "l", "e", "g", "a", "c", "y", ".", "j", "s">>
\* bye:"Bye",hello:"Hello"
ByeHello == << Entry(<<"b", "y", "e">>, <<DQ, "B", "y", "e", DQ>>),
               Entry(<<"h", "e", "l", "l", "o">>, <<DQ, "H", "e", "l", "l", "o", DQ>>) >>
\* A chunk whose source is a buffer.
BinaryChunk(filename, bytes) == [filename |-> filename, isString |-> FALSE, code |-> bytes]

\* a:"A",c:'': a reference whose second entry has no translation.
WithEmptyReference == << Entry(<<"a">>, <<DQ, "A", DQ>>), Entry(<<"c">>, <<SQ, SQ>>) >>
\* a:"",c:'': no entry is translated.
WithEmptyValues == << Entry(<<"a">>, <<DQ, DQ>>), Entry(<<"c">>, <<SQ, SQ>>) >>
\* {a:"X", and a line break before the closing brace.
CommaAndNewline == <<"{", "a", ":", DQ, "X", DQ, ",", LF, "}">>
\* Builds with assets of every category: language files with a legacy, a
\* hashed, a two-segment and an upper-case name, a style sheet, the vendors
\* chunk, a binary chunk, and language files whose names hold en elsewhere.
MixedAssets(w) ==
    { <<LanguageChunk(EnPo, DictionaryText(HelloBye, FALSE), w),
        LanguageChunk(DePoLegacy, DictionaryText(Hola, FALSE), w),
        OtherChunk(AppCss, UsesHello, w),
        OtherChunk(ChunkVendorsJs, UsesHello, w),
        BinaryChunk(LibJs, UsesHello),
        OtherChunk(AppJs, UsesHelloMissing, w)>>,
      <<LanguageChunk(DePoHashed, DictionaryText(Hola, FALSE), w),
        LanguageChunk(DePoTwoSegments, DictionaryText(Hola, FALSE), w),
        LanguageChunk(DePoCss, DictionaryText(Hola, FALSE), w),
        LanguageChunk(EnPo, DictionaryText(HelloBye, FALSE), w),
        OtherChunk(AppJs, UsesA, w)>>,
      <<LanguageChunk(EnPo, DictionaryText(HelloBye, FALSE), w),
        LanguageChunk(DePoUpperCase, DictionaryText(Hola, FALSE), w),
        OtherChunk(AppJs, UsesHello, w)>>,
      <<LanguageChunk(GreenPo, DictionaryText(Hola, FALSE), w),
        LanguageChunk(LangEnPo, DictionaryText(HelloBye, FALSE), w),
        OtherChunk(AppJs, UsesHello, w)>>,
      <<LanguageChunk(GreenPo, DictionaryText(Hola, FALSE), w),
        LanguageChunk(PoEnJs, DictionaryText(HelloBye, FALSE), w),
        OtherChunk(AppJs, UsesHello, w)>>,
      <<LanguageChunk(EnPo, DictionaryText(WithEmptyReference, FALSE), w),
        LanguageChunk(DePo, DictionaryText(WithEmptyValues, FALSE), w)>>,
      <<LanguageChunk(EnPo, DictionaryText(HelloBye, FALSE), w),
        LanguageChunk(DePo, CommaAndNewline, w)>>,
      <<LanguageChunk(EnPo, DictionaryText(<<Entry(<<"a">>, <<DQ, "A", DQ>>)>>, FALSE), w),
        OtherChunk(AppJs, UsesInsideComponent, w), OtherChunk(LibJs, UsesBeforePath, w)>>,
      <<LanguageChunk(DePo, DictionaryText(Hola, FALSE), w),
        LanguageChunk(EnPo, DictionaryText(HelloBye, FALSE), w),
        LanguageChunk(EnPoLegacy, DictionaryText(ByeHello, FALSE), w),
        OtherChunk(AppJs, UsesHello, w)>> }
\* compilation.assets, as the list of its entries.
Assets(w) ==
    {l \o o : l \in LanguageChunkLists(w), o \in OtherChunkLists(w)} \cup MixedAssets(w)

(***************************************************************************)
(* The state of one pass.                                                  *)
(***************************************************************************)
VARIABLES
    compilation,               \* the compilation the hash hooks belong to
    chunks,                    \* the chunks the chunkHash hook is called for
    chunkHashes,               \* per chunk, what chunkHash.update was called with
    events,                    \* the tags the SAX parser emits for a vue file
    depth,                     \* parseVueFile's depth
    sectionLocations,          \* parseVueFile's sectionLocations
    isEvalWrapped,             \* the devtool is an eval option
    argv,                      \* process.argv
    directories,               \* the directories that exist
    exports,                   \* module.exports of the main module
    extractor,                 \* the extractor was started
    returned,                  \* what a call of the exported function returned
    assets,                    \* the entries of compilation.assets
    languageChunkInfos,        \* the language chunks handed to processChunks
    otherChunkInfos,           \* the other chunks handed to processChunks
    pc,                        \* the position of the pass
    i,                         \* the position of the loop the pass is in
    parsedLanguageChunkInfos,  \* the results of parseLanguageChunk so far
    translationKeyIndexMap,    \* key -> ordinal, in property order
    fallbackTranslations,      \* key -> reference translation
    missingTranslations,       \* optimizeChunks' missingTranslations
    unusedTranslations,        \* optimizeChunks' unusedTranslations
    languageSources,           \* per language chunk, its source's replacements
    otherSources,              \* per other chunk, its source's replacements
    updated,                   \* the updateChunk calls: filename and text
    warnings,                  \* the emitWarning calls
    errors,                    \* the compilation errors processAssets pushed
    str,                       \* the argument of encodeAsStringLiteral
    literal,                   \* its result
    normalized                 \* normalizeString of the literal and of str

vars == <<compilation, chunks, chunkHashes, events, depth, sectionLocations,
          argv, directories, exports, extractor, returned, isEvalWrapped, assets, languageChunkInfos, otherChunkInfos, pc, i,
          parsedLanguageChunkInfos, translationKeyIndexMap, fallbackTranslations,
          missingTranslations, unusedTranslations,
          languageSources, otherSources, updated, warnings, errors,
          str, literal, normalized>>

inputs == <<isEvalWrapped, assets, languageChunkInfos, otherChunkInfos>>
index == <<translationKeyIndexMap, fallbackTranslations>>
diagnostics == <<missingTranslations, unusedTranslations>>
sources == <<languageSources, otherSources>>
outputs == <<updated, warnings, errors>>
strings == <<str, literal, normalized>>
main == <<argv, directories, exports, extractor, returned>>
hash == <<compilation, chunks, chunkHashes>>
vue == <<events, depth, sectionLocations>>

\* No compilation has called the hash hooks.
NothingHashed ==
    /\ compilation = [hasOptions |-> FALSE, realContentHash |-> FALSE, modules |-> <<>>]
    /\ chunks = <<>>
    /\ chunkHashes = <<>>
\* No vue file is being parsed.
NothingParsed ==
    /\ events = <<>>
    /\ depth = 0
    /\ sectionLocations = <<>>

\* The main module is not being loaded.
MainNotLoaded ==
    /\ argv = <<>>
    /\ directories = {}
    /\ exports = "object"
    /\ extractor = FALSE
    /\ returned = <<>>

\* Nothing of a pass has happened.
NothingProcessed ==
    /\ i = 1
    /\ parsedLanguageChunkInfos = <<>>
    /\ translationKeyIndexMap = <<>>
    /\ fallbackTranslations = <<>>
    /\ missingTranslations = {}
    /\ unusedTranslations = {}
    /\ languageSources = <<>>
    /\ otherSources = <<>>
    /\ updated = <<>>
    /\ warnings = <<>>
    /\ errors = <<>>
    /\ literal = <<>>
    /\ normalized = <<>>

Init ==
    /\ isEvalWrapped \in BOOLEAN
    /\ assets \in Assets(isEvalWrapped)
    /\ languageChunkInfos = LanguageAssets(assets)
    /\ otherChunkInfos = OtherAssets(assets)
    /\ pc = "processChunks"
    /\ str = <<>>
    /\ NothingProcessed
    /\ NothingHashed
    /\ NothingParsed
    /\ MainNotLoaded

FailedToParse == "Failed to parse language file."
BundlingNote == " Note that currently bundling of language files is not supported by our webpack plugin. Each language file has to be its own chunk."
ReferenceNotFound == "English reference language file not found."

\* The catch clause of processAssets: the message of what processChunks
\* threw, as the parts it is concatenated from, pushed as an error.
Catch(message) ==
    /\ errors' = Append(errors, IF message = FailedToParse
                                THEN <<message, BundlingNote>> ELSE <<message>>)
    /\ pc' = "aborted"

\* A variant of the early return that goes on to optimizeChunks.
ContinuesWithoutLanguageChunks ==
    /\ pc = "processChunks"
    /\ Len(languageChunkInfos) = 0
    /\ pc' = "optimizeChunks"
    /\ UNCHANGED <<main, hash, vue, strings, inputs, i, parsedLanguageChunkInfos, index, diagnostics, sources,
                   outputs>>

\* processChunks returns at once without language chunks.
NoLanguageChunks ==
    /\ pc = "processChunks"
    /\ Len(languageChunkInfos) = 0
    /\ pc' = "done"
    /\ UNCHANGED <<main, hash, vue, strings, inputs, i, parsedLanguageChunkInfos, index, diagnostics, sources,
                   outputs>>

\* languageChunkInfos.map(parseLanguageChunk), one chunk.
ParseLanguageChunk ==
    /\ pc = "processChunks"
    /\ i <= Len(languageChunkInfos)
    /\ \E parsed \in {parseLanguageChunk(languageChunkInfos[i], isEvalWrapped)} :
          /\ ~parsed.throws
          /\ parsedLanguageChunkInfos' = Append(parsedLanguageChunkInfos, parsed)
    /\ IF i < Len(languageChunkInfos)
       THEN i' = i + 1 /\ pc' = pc
       ELSE i' = 1 /\ pc' = "optimizeChunks"
    /\ UNCHANGED <<main, hash, vue, strings, inputs, index, diagnostics, sources, outputs>>

\* A variant in which a chunk that fails to parse is left out of the pass.
ParseLanguageChunkSkips ==
    /\ pc = "processChunks"
    /\ i <= Len(languageChunkInfos)
    /\ parseLanguageChunk(languageChunkInfos[i], isEvalWrapped).throws
    /\ IF i < Len(languageChunkInfos)
       THEN i' = i + 1 /\ pc' = pc
       ELSE i' = 1 /\ pc' = "optimizeChunks"
    /\ UNCHANGED <<main, hash, vue, strings, inputs, parsedLanguageChunkInfos, index, diagnostics, sources,
                   outputs>>

\* parseLanguageChunk throws; processAssets catches.
ParseLanguageChunkThrows ==
    /\ pc = "processChunks"
    /\ i <= Len(languageChunkInfos)
    /\ parseLanguageChunk(languageChunkInfos[i], isEvalWrapped).throws
    /\ Catch(FailedToParse)
    /\ UNCHANGED <<main, hash, vue, strings, inputs, i, parsedLanguageChunkInfos, index, diagnostics, sources,
                   updated, warnings>>

\* The phase after the loop over the language chunks, then over the others.
AfterLanguageChunks == IF Len(otherChunkInfos) > 0 THEN "usages" ELSE "update"

\* optimizeChunks up to its loops: the reference chunk, the index, the
\* fallbacks, the two sets.
IndexReference ==
    /\ pc = "optimizeChunks"
    /\ ReferenceLanguageChunk(parsedLanguageChunkInfos) # 0
    /\ \E built \in {BuildIndex(parsedLanguageChunkInfos[
                            ReferenceLanguageChunk(parsedLanguageChunkInfos)].translations)} :
          /\ translationKeyIndexMap' = built.map
          /\ fallbackTranslations' = built.fallback
          /\ unusedTranslations' = KeySet(built.map)
    /\ missingTranslations' = {}
    /\ pc' = "language"
    /\ i' = 1
    /\ UNCHANGED <<main, hash, vue, strings, inputs, parsedLanguageChunkInfos, sources, outputs>>

\* optimizeChunks throws without a reference chunk; processAssets catches.
ReferenceMissing ==
    /\ pc = "optimizeChunks"
    /\ ReferenceLanguageChunk(parsedLanguageChunkInfos) = 0
    /\ Catch(ReferenceNotFound)
    /\ UNCHANGED <<main, hash, vue, strings, inputs, i, parsedLanguageChunkInfos, index, diagnostics, sources,
                   updated, warnings>>

\* A variant of the iteration that takes the chunk's own translations for the
\* fallbacks of the chunks after it.
OptimizeLanguageChunkRebuilds ==
    /\ pc = "language"
    /\ languageSources' =
          Append(languageSources,
                 optimizeLanguageChunk(parsedLanguageChunkInfos[i], translationKeyIndexMap,
                                       fallbackTranslations, isEvalWrapped))
    /\ fallbackTranslations' = BuildIndex(parsedLanguageChunkInfos[i].translations).fallback
    /\ IF i < Len(parsedLanguageChunkInfos)
       THEN i' = i + 1 /\ pc' = pc
       ELSE i' = 1 /\ pc' = AfterLanguageChunks
    /\ UNCHANGED <<main, hash, vue, strings, inputs, parsedLanguageChunkInfos, translationKeyIndexMap,
                   diagnostics, otherSources, outputs>>

\* One iteration of the loop over the language chunks.
OptimizeLanguageChunk ==
    /\ pc = "language"
    /\ languageSources' =
          Append(languageSources,
                 optimizeLanguageChunk(parsedLanguageChunkInfos[i], translationKeyIndexMap,
                                       fallbackTranslations, isEvalWrapped))
    /\ IF i < Len(parsedLanguageChunkInfos)
       THEN i' = i + 1 /\ pc' = pc
       ELSE i' = 1 /\ pc' = AfterLanguageChunks
    /\ UNCHANGED <<main, hash, vue, strings, inputs, parsedLanguageChunkInfos, index, diagnostics, otherSources,
                   outputs>>

\* One iteration of the loop over the other chunks.
OptimizeTranslationUsages ==
    /\ pc = "usages"
    /\ \E result \in {optimizeTranslationUsages(otherChunkInfos[i], translationKeyIndexMap,
                                                  isEvalWrapped)} :
          /\ otherSources' = Append(otherSources, result.rs)
          /\ missingTranslations' = missingTranslations \cup result.missing
          /\ unusedTranslations' = unusedTranslations \ result.used
    /\ IF i < Len(otherChunkInfos)
       THEN i' = i + 1 /\ pc' = pc
       ELSE i' = 1 /\ pc' = "update"
    /\ UNCHANGED <<main, hash, vue, strings, inputs, parsedLanguageChunkInfos, index, languageSources, outputs>>

\* A variant of the iteration that hands over the other chunks first.
UpdateChunkUsagesFirst ==
    /\ pc = "update"
    /\ LET n == Len(parsedLanguageChunkInfos)
           m == Len(otherChunkInfos)
           chunk == IF i <= m THEN otherChunkInfos[i] ELSE parsedLanguageChunkInfos[i - m]
           rs == IF i <= m THEN otherSources[i] ELSE languageSources[i - m]
       IN  /\ updated' = Append(updated, [filename |-> chunk.filename,
                                          text |-> SourceOf(chunk.code, rs)])
           /\ IF i < n + m
              THEN i' = i + 1 /\ pc' = pc
              ELSE i' = 1 /\ pc' = "report"
    /\ UNCHANGED <<main, hash, vue, strings, inputs, parsedLanguageChunkInfos, index, diagnostics, sources,
                   warnings, errors>>

\* One iteration of the loop that hands every chunk's source to updateChunk.
UpdateChunk ==
    /\ pc = "update"
    /\ LET n == Len(parsedLanguageChunkInfos)
           chunk == IF i <= n THEN parsedLanguageChunkInfos[i] ELSE otherChunkInfos[i - n]
           rs == IF i <= n THEN languageSources[i] ELSE otherSources[i - n]
       IN  /\ updated' = Append(updated, [filename |-> chunk.filename,
                                          text |-> SourceOf(chunk.code, rs)])
           /\ IF i < n + Len(otherChunkInfos)
              THEN i' = i + 1 /\ pc' = pc
              ELSE i' = 1 /\ pc' = "report"
    /\ UNCHANGED <<main, hash, vue, strings, inputs, parsedLanguageChunkInfos, index, diagnostics, sources,
                   warnings, errors>>

\* reportMissingAndUnusedTranslations
ReportMissingAndUnusedTranslations ==
    /\ pc = "report"
    /\ LET warnMessage == WarnMessage(missingTranslations, unusedTranslations)
       IN  warnings' = IF warnMessage # <<>> THEN Append(warnings, warnMessage) ELSE warnings
    /\ pc' = "done"
    /\ UNCHANGED <<main, hash, vue, strings, inputs, i, parsedLanguageChunkInfos, index, diagnostics, sources,
                   updated, errors>>

Next ==
    \/ NoLanguageChunks
    \/ ParseLanguageChunk
    \/ ParseLanguageChunkThrows
    \/ IndexReference
    \/ ReferenceMissing
    \/ OptimizeLanguageChunk
    \/ OptimizeTranslationUsages
    \/ UpdateChunk
    \/ ReportMissingAndUnusedTranslations

Spec == Init /\ [][Next]_vars

(***************************************************************************)
(* encodeAsStringLiteral followed by normalizeString, on strings over the   *)
(* characters the two functions treat specially and two ordinary ones.     *)
(***************************************************************************)
\* Bound: the length of the strings.
MaxLen == 3
Alphabet == {SQ, DQ, BT, BS, LF, NBSP, "a", "n"}
Strings == UNION {[1..n -> Alphabet] : n \in 0..MaxLen}

StringInit ==
    /\ isEvalWrapped \in BOOLEAN
    /\ str \in Strings
    /\ assets = <<>>
    /\ languageChunkInfos = <<>>
    /\ otherChunkInfos = <<>>
    /\ pc = "encodeAsStringLiteral"
    /\ NothingProcessed
    /\ NothingHashed
    /\ NothingParsed
    /\ MainNotLoaded

pass == <<inputs, i, parsedLanguageChunkInfos, index, diagnostics, sources, outputs>>

EncodeAsStringLiteral ==
    /\ pc = "encodeAsStringLiteral"
    /\ literal' = encodeAsStringLiteral(str, isEvalWrapped)
    /\ pc' = "normalizeString"
    /\ UNCHANGED <<main, hash, vue, pass, str, normalized>>

NormalizeString ==
    /\ pc = "normalizeString"
    /\ normalized' = [literal |-> normalizeString(literal, isEvalWrapped),
                      str |-> normalizeString(str, isEvalWrapped)]
    /\ pc' = "normalized"
    /\ UNCHANGED <<main, hash, vue, pass, str, literal>>

StringNext ==
    \/ EncodeAsStringLiteral
    \/ NormalizeString

StringSpec == StringInit /\ [][StringNext]_vars

(***************************************************************************)
(* The main module of the package: loaded by node with the path of an      *)
(* output file, it starts the extractor; loaded by a build tool, it        *)
(* exports the function that gives the loader or the plugin.               *)
(***************************************************************************)
\* path.extname: the base name from its last dot on, '' without a dot or
\* with no dot but a leading one.
LastDot(name) ==
    IF \E k \in 1..Len(name) : name[k] = "."
    THEN CHOOSE k \in 1..Len(name) :
            name[k] = "." /\ \A j \in (k + 1)..Len(name) : name[j] # "."
    ELSE 0
extname(p) ==
    IF LastDot(basename(p)) <= 1 THEN <<>>
    ELSE SubSeq(basename(p), LastDot(basename(p)), Len(basename(p)))
\* path.dirname of a relative path without a trailing slash.
dirname(p) ==
    IF Len(p) = Len(basename(p)) THEN <<".">>
    ELSE SubSeq(p, 1, Len(p) - Len(basename(p)) - 1)

\* The condition under which the module starts the extractor.
IsExtractorRun ==
    /\ Len(argv) >= 3
    /\ argv[3] # <<>>
    /\ ~includes(argv[3], <<"b", "u", "i", "l", "d">>)
    /\ ~includes(argv[3], <<"s", "e", "r", "v", "e">>)
    /\ dirname(argv[3]) \in directories
    /\ extname(argv[3]) # <<>>

\* The scripts node runs: the package's index.js, and build tools.
IndexJs == <<"i", "n", "d", "e", "x", ".", "j", "s">>
Webpack == <<"w", "e", "b", "p", "a", "c", "k">>
VueCliService == <<"v", "u", "e", "-", "c", "l", "i", "-", "s", "e", "r", "v", "i", "c", "e">>
Scripts == {IndexJs, Webpack, VueCliService}
\* The arguments after the script: none; build; serve; --config
\* webpack.config.js; --config=webpack.config.js; src/main.js; lang/en.po;
\* lang/build.po; en.po.
ConfigFile ==
    <<"w", "e", "b", "p", "a", "c", "k", ".", "c", "o", "n", "f", "i", "g", ".", "j", "s">>
ConfigOption == <<"-", "-", "c", "o", "n", "f", "i", "g">>
Arguments ==
    { <<>>,
      << <<"b", "u", "i", "l", "d">> >>,
      << <<"s", "e", "r", "v", "e">> >>,
      << ConfigOption, ConfigFile >>,
      << ConfigOption \o <<"=">> \o ConfigFile >>,
      << <<"s", "r", "c", "/", "m", "a", "i", "n", ".", "j", "s">> >>,
      << <<"l", "a", "n", "g", "/", "e", "n", ".", "p", "o">> >>,
      << <<"l", "a", "n", "g", "/", "b", "u", "i", "l", "d", ".", "p", "o">> >>,
      << <<"e", "n", ".", "p", "o">> >> }
\* The directories of the project, with and without lang.
DirectorySets ==
    { {<<".">>, <<"s", "r", "c">>, <<"l", "a", "n", "g">>},
      {<<".">>, <<"s", "r", "c">>} }
\* The arguments of a call of the exported function: none, the empty text
\* and the text of a language file.
Undefined == [given |-> FALSE, text |-> <<>>]
Sources ==
    {Undefined, [given |-> TRUE, text |-> <<>>],
     [given |-> TRUE, text |-> <<"m", "s", "g", "i", "d">>]}

MainInit ==
    /\ \E script \in Scripts, arguments \in Arguments :
          argv = <<<<"n", "o", "d", "e">>, script>> \o arguments
    /\ directories \in DirectorySets
    /\ exports = "object"
    /\ extractor = FALSE
    /\ returned = <<>>
    /\ isEvalWrapped = FALSE
    /\ assets = <<>>
    /\ languageChunkInfos = <<>>
    /\ otherChunkInfos = <<>>
    /\ str = <<>>
    /\ pc = "require"
    /\ NothingProcessed
    /\ NothingHashed
    /\ NothingParsed

\* The module is evaluated with the path of an output file: the extractor
\* runs and module.exports stays the empty object.
StartExtractor ==
    /\ pc = "require"
    /\ IsExtractorRun
    /\ extractor' = TRUE
    /\ pc' = "loaded"
    /\ UNCHANGED <<argv, directories, exports, returned, strings, pass, hash, vue>>

\* The module is evaluated otherwise: it exports the function.
ExportFunction ==
    /\ pc = "require"
    /\ ~IsExtractorRun
    /\ exports' = "function"
    /\ pc' = "loaded"
    /\ UNCHANGED <<argv, directories, extractor, returned, strings, pass, hash, vue>>

\* The exported function is called: with a source it is the loader, without
\* one it gives the plugin.
CallExport ==
    /\ pc = "loaded"
    /\ exports = "function"
    /\ \E source \in Sources :
          returned' = << [source |-> source,
                          value |-> IF source.given /\ source.text # <<>>
                                    THEN "loader(source)" ELSE "plugin"] >>
    /\ pc' = "called"
    /\ UNCHANGED <<argv, directories, exports, extractor, strings, pass, hash, vue>>

\* The empty object the module exports otherwise is called: a TypeError.
CallExportThrows ==
    /\ pc = "loaded"
    /\ exports = "object"
    /\ \E source \in Sources :
          returned' = << [source |-> source, value |-> "TypeError"] >>
    /\ pc' = "called"
    /\ UNCHANGED <<argv, directories, exports, extractor, strings, pass, hash, vue>>

MainNext ==
    \/ StartExtractor
    \/ ExportFunction
    \/ CallExport
    \/ CallExportThrows

MainSpec == MainInit /\ [][MainNext]_vars

(***************************************************************************)
(* The hash hooks of the webpack plugin: chunk hashes of translation chunks *)
(* take in the hash of the reference language module.                      *)
(***************************************************************************)
\* /(?<!\ben)-po$/.test(name)
IsTranslationChunkName(name) ==
    /\ endsWith(name, <<"-", "p", "o">>)
    /\ ~(/\ Len(name) >= 5
         /\ name[Len(name) - 4] = "e" /\ name[Len(name) - 3] = "n"
         /\ (Len(name) = 5 \/ name[Len(name) - 5] \notin WordChars))

\* /\ben\.po$/.test(resource)
IsReferenceResource(resource) ==
    /\ endsWith(resource, <<"e", "n", ".", "p", "o">>)
    /\ (Len(resource) = 5 \/ resource[Len(resource) - 5] \notin WordChars)
\* [...compilation.modules].find(...): the position of the first module with
\* the resource of the reference language, 0 when there is none.
ReferenceLanguageModule(modules) ==
    IF \E k \in 1..Len(modules) : IsReferenceResource(modules[k].resource)
    THEN CHOOSE k \in 1..Len(modules) :
            /\ IsReferenceResource(modules[k].resource)
            /\ \A j \in 1..(k - 1) : ~IsReferenceResource(modules[j].resource)
    ELSE 0
ReferenceModuleNotFound == "Reference language module en.po not found"
\* getReferenceLanguageModuleHash: the hash of that module, Null without one.
getReferenceLanguageModuleHash(modules) ==
    IF ReferenceLanguageModule(modules) = 0 THEN Null
    ELSE modules[ReferenceLanguageModule(modules)].hash

EnPoResource == <<"s", "r", "c", "/", "e", "n", ".", "p", "o">>
DePoResource == <<"s", "r", "c", "/", "d", "e", ".", "p", "o">>
GreenPoResource == <<"g", "r", "e", "e", "n", ".", "p", "o">>
MainJsResource == <<"m", "a", "i", "n", ".", "j", "s">>
Module(resource, h) == [resource |-> resource, hash |-> h]
ModuleLists ==
    {<<>>,
     <<Module(MainJsResource, <<"h", "1">>)>>,
     <<Module(DePoResource, <<"h", "2">>), Module(GreenPoResource, <<"h", "3">>)>>,
     <<Module(MainJsResource, <<"h", "1">>), Module(EnPoResource, <<"h", "4">>)>>,
     <<Module(EnPoResource, <<"h", "4">>), Module(DePoResource, <<"h", "2">>),
       Module(<<"e", "n", ".", "p", "o">>, <<"h", "5">>)>>}
\* chunk.name: of chunks without a name, of chunks of the application, of
\* translation chunks and of reference chunks.
ChunkNames ==
    {<<>>, <<"a", "p", "p">>, <<"d", "e", "-", "p", "o">>, <<"e", "n", "-", "p", "o">>,
     <<"g", "r", "e", "e", "n", "-", "p", "o">>,
     <<"l", "a", "n", "g", "-", "e", "n", "-", "p", "o">>,
     <<"d", "e", "-", "p", "o", "-", "l", "e", "g", "a", "c", "y">>}
\* Bound: the number of chunks of a compilation.
MaxChunks == 2
ChunkLists == UNION {[1..n -> ChunkNames] : n \in 0..MaxChunks}

HashInit ==
    /\ compilation \in [hasOptions : BOOLEAN, realContentHash : BOOLEAN, modules : ModuleLists]
    /\ chunks \in ChunkLists
    /\ chunkHashes = [k \in 1..Len(chunks) |-> <<>>]
    /\ isEvalWrapped = FALSE
    /\ assets = <<>>
    /\ languageChunkInfos = <<>>
    /\ otherChunkInfos = <<>>
    /\ str = <<>>
    /\ pc = "apply"
    /\ NothingProcessed
    /\ NothingParsed
    /\ MainNotLoaded

\* What the hash hooks leave alone.
unhashed == <<main, vue, strings, inputs, parsedLanguageChunkInfos, index, diagnostics, sources,
              updated, warnings>>

\* apply, in Webpack 4 or with realContentHash disabled: the chunkHash hook
\* is tapped.
TapChunkHash ==
    /\ pc = "apply"
    /\ ~compilation.hasOptions \/ ~compilation.realContentHash
    /\ pc' = IF chunks = <<>> THEN "done" ELSE "chunkHash"
    /\ UNCHANGED <<unhashed, hash, i, errors>>

\* apply, in Webpack 5 with realContentHash: no hash hook is tapped.
LeaveChunkHash ==
    /\ pc = "apply"
    /\ compilation.hasOptions /\ compilation.realContentHash
    /\ pc' = "done"
    /\ UNCHANGED <<unhashed, hash, i, errors>>

\* The chunkHash hook has been called for chunk i.
NextChunkHash ==
    IF i < Len(chunks) THEN i' = i + 1 /\ pc' = pc ELSE i' = 1 /\ pc' = "done"

\* augmentTranslationChunkHash returns at once: the chunk has no name, or it
\* is no language chunk, or it is the reference chunk.
AugmentReturns ==
    /\ pc = "chunkHash"
    /\ chunks[i] = <<>> \/ ~IsTranslationChunkName(chunks[i])
    /\ NextChunkHash
    /\ UNCHANGED <<unhashed, hash, errors>>

\* augmentTranslationChunkHash of a translation chunk: chunkHash.update is
\* called with what getReferenceLanguageModuleHash returns, which is Null
\* after it has emitted the compilation error.
AugmentTranslationChunkHash ==
    /\ pc = "chunkHash"
    /\ chunks[i] # <<>> /\ IsTranslationChunkName(chunks[i])
    /\ \E referenceLanguageModuleHash \in {getReferenceLanguageModuleHash(compilation.modules)} :
          /\ errors' = IF referenceLanguageModuleHash = Null
                       THEN Append(errors, <<ReferenceModuleNotFound>>) ELSE errors
          /\ chunkHashes' = [chunkHashes EXCEPT ![i] = Append(@, referenceLanguageModuleHash)]
    /\ NextChunkHash
    /\ UNCHANGED <<unhashed, compilation, chunks>>

HashNext ==
    \/ TapChunkHash
    \/ LeaveChunkHash
    \/ AugmentReturns
    \/ AugmentTranslationChunkHash

HashSpec == HashInit /\ [][HashNext]_vars

(***************************************************************************)
(* The extractor's parseVueFile: the start and end tags the SAX parser     *)
(* emits for a vue file give the locations of its two sections.            *)
(***************************************************************************)
selfClosingTags ==
    {"area", "base", "br", "col", "command", "embed", "hr", "img", "input", "keygen", "link",
     "meta", "param", "source", "track", "wbr"}
SectionNames == {"template", "script"}
\* A section location: null, or an object of start, line and end, each 0
\* while it is undefined.
NullSection == [isNull |-> TRUE, start |-> 0, line |-> 0, end |-> 0]
\* The tags of the files: a tag is a start tag or an end tag with a name.
StartTag(tagName, selfClosing) == [isStart |-> TRUE, tagName |-> tagName, selfClosing |-> selfClosing]
EndTag(tagName) == [isStart |-> FALSE, tagName |-> tagName, selfClosing |-> FALSE]
Tags ==
    {StartTag("template", FALSE), StartTag("script", FALSE), StartTag("div", FALSE),
     StartTag("div", TRUE), StartTag("template", TRUE), StartTag("br", FALSE),
     EndTag("template"), EndTag("script"), EndTag("div"), EndTag("br")}
\* Bound: the number of tags of a file.
MaxTags == 4
TagLists == UNION {[1..n -> Tags] : n \in 0..MaxTags}
\* sourceCodeLocation of the n-th tag of a file: tags are ten characters
\* apart and five long, one on a line.
startOffset(n) == 10 * n
endOffset(n) == 10 * n + 5
endLine(n) == n

VueInit ==
    /\ events \in TagLists
    /\ depth = 0
    /\ sectionLocations = [name \in SectionNames |-> NullSection]
    /\ isEvalWrapped = FALSE
    /\ assets = <<>>
    /\ languageChunkInfos = <<>>
    /\ otherChunkInfos = <<>>
    /\ str = <<>>
    /\ pc = "parse"
    /\ NothingProcessed
    /\ NothingHashed
    /\ MainNotLoaded

\* What parseVueFile leaves alone.
unparsed == <<main, hash, strings, inputs, parsedLanguageChunkInfos, index, diagnostics, sources,
              outputs>>

\* htmlParser.on('startTag')
OnStartTag ==
    /\ pc = "parse"
    /\ i <= Len(events)
    /\ events[i].isStart
    /\ sectionLocations' =
          IF depth = 0 /\ events[i].tagName \in SectionNames
          THEN [sectionLocations EXCEPT ![events[i].tagName] =
                    [isNull |-> FALSE, start |-> endOffset(i), line |-> endLine(i), end |-> 0]]
          ELSE sectionLocations
    /\ depth' = IF ~(events[i].selfClosing \/ events[i].tagName \in selfClosingTags)
                THEN depth + 1 ELSE depth
    /\ i' = i + 1
    /\ UNCHANGED <<unparsed, events, pc>>

\* htmlParser.on('endTag')
OnEndTag ==
    /\ pc = "parse"
    /\ i <= Len(events)
    /\ ~events[i].isStart
    /\ depth' = depth - 1
    /\ sectionLocations' =
          IF depth' = 0 /\ events[i].tagName \in SectionNames
          THEN [sectionLocations EXCEPT ![events[i].tagName] =
                    [@ EXCEPT !.isNull = FALSE, !.end = startOffset(i)]]
          ELSE sectionLocations
    /\ i' = i + 1
    /\ UNCHANGED <<unparsed, events, pc>>

\* htmlStream.on('end'): no tag is left.
OnEnd ==
    /\ pc = "parse"
    /\ i > Len(events)
    /\ pc' = "end"
    /\ UNCHANGED <<unparsed, vue, i>>

VueNext ==
    \/ OnStartTag
    \/ OnEndTag
    \/ OnEnd

VueSpec == VueInit /\ [][VueNext]_vars

(***************************************************************************)
(* What the properties observe.                                            *)
(***************************************************************************)
\* The phases in which the index of the reference exists.
Indexed == {"language", "usages", "update", "report", "done"}
\* The phases after optimizeChunks returned.
Optimized == {"update", "report", "done"}

\* The code a chunk text makes the engine run: with an eval devtool, the
\* value of the string literal passed to eval.
RunCode(text, w) == IF w THEN Unescape(SubSeq(text, 7, Len(text) - 2)) ELSE text
\* The dictionary a chunk text denotes, read as parseLanguageChunk reads the
\* module code.
DictionaryOf(text, w) ==
    JSON5Parse(TextOrNull(MatchOf(generateTranslationObjectRegex(FALSE), RunCode(text, w))))

\* The entries the matches ms of the entry expression stand for in text:
\* key and value normalized, and the key as written.
EntriesOf(text, w, ms) ==
    [k \in 1..Len(ms) |->
        [key |-> normalizeString(SubSeq(text, ms[k][1] + 1, ms[k][2]), w),
         written |-> SubSeq(text, ms[k][1] + 1, ms[k][2]),
         value |-> normalizeString(SubSeq(text, ms[k][3] + 1, ms[k][4]), w)]]
\* The entries the entry expression of the pass finds in a text.
ScannedEntries(text, w) ==
    EntriesOf(text, w, AllMatches(generateTranslationEntryRegex(w), text, 0))
\* The usage sites the usage expression of the pass finds in a text.
UsageSites(text, w) == AllMatches(generateTranslationUsageRegex(w), text, 0)
\* The normalized key of a usage site.
SiteKey(text, w, site) == normalizeString(SubSeq(text, site[2] + 1, site[3]), w)
\* The keys the usage sites of a text reference.
KeysOfSites(text, w, sites) == {SiteKey(text, w, sites[k]) : k \in 1..Len(sites)}
ReferencedKeys ==
    UNION {KeysOfSites(otherChunkInfos[k].code, isEvalWrapped,
                       UsageSites(otherChunkInfos[k].code, isEvalWrapped)) :
           k \in {j \in 1..Len(otherChunkInfos) : otherChunkInfos[j].isString}}

\* By how much the replacements that end before offset pos move the text
\* that follows them.
RECURSIVE ShiftBefore(_, _)
ShiftBefore(rs, pos) ==
    IF rs = <<>> THEN 0
    ELSE (IF Head(rs).end < pos
          THEN Len(Head(rs).content) - (Head(rs).end - Head(rs).start + 1) ELSE 0)
         + ShiftBefore(Tail(rs), pos)

\* The values a dictionary gives the entries whose key normalizes to key.
OwnTranslations(translations, key) ==
    {normalizeString(translations[k][2], FALSE) :
        k \in {j \in 1..Len(translations) : normalizeString(translations[j][1], FALSE) = key}}
\* The normalized keys of a dictionary.
NormalizedKeys(translations) ==
    {normalizeString(translations[k][1], FALSE) : k \in 1..Len(translations)}

\* The build of the end-to-end example: en-po.js with hello and bye, de-po.js
\* with hello, app.js with a call for hello and one for missing.
ExampleLanguageChunks(w) ==
    <<LanguageChunk(EnPo, DictionaryText(HelloBye, FALSE), w),
      LanguageChunk(DePo, DictionaryText(Hola, FALSE), w)>>
ExampleOtherChunks(w) == <<OtherChunk(AppJs, UsesHelloMissing, w)>>
IsExample ==
    /\ languageChunkInfos = ExampleLanguageChunks(isEvalWrapped)
    /\ otherChunkInfos = ExampleOtherChunks(isEvalWrapped)
Hello == <<"H", "e", "l", "l", "o">>
Bye == <<"B", "y", "e">>
Missing == <<"m", "i", "s", "s", "i", "n", "g">>
\* $t('0');$t('missing')
UsesOrdinalMissing ==
    <<"$", "t", "(", SQ, "0", SQ, ")", ";",
      "$", "t", "(", SQ, "m", "i", "s", "s", "i", "n", "g", SQ, ")">>

\* No language chunk has the name of the reference language.
NoReferenceChunk ==
    /\ Len(languageChunkInfos) > 0
    /\ \A k \in 1..Len(languageChunkInfos) :
          ~IsReferenceName(basename(languageChunkInfos[k].filename))
\* parseLanguageChunk throws for the language chunk at position k.
Unparsable(k) == parseLanguageChunk(languageChunkInfos[k], isEvalWrapped).throws

(***************************************************************************)
(* Properties.                                                             *)
(***************************************************************************)
\* C1: the index optimizeChunks builds from the reference is a bijection
\* from its N distinct normalized keys onto 0..N-1, the ordinals assigned in
\* the order of first appearance of the keys (the order of the index), also
\* when two entries of the reference normalize to the same key.
C1_IndexIsBijectionInOrder ==
    pc \in Indexed =>
        \A k \in 1..Len(translationKeyIndexMap) : translationKeyIndexMap[k][2] = k - 1
\* The index of a reference two of whose entries normalize to the same key.
C1_DuplicateKeysIndexed ==
    /\ pc \in Indexed
    /\ Len(parsedLanguageChunkInfos) > 0
    /\ Len(parsedLanguageChunkInfos[ReferenceLanguageChunk(parsedLanguageChunkInfos)]
                .translations) > Len(translationKeyIndexMap)

\* C2: the end-to-end example.  After the pass the reference dictionary is
\* {0:"Hello",1:"Bye"}, the second dictionary is {0:"Hola",1:"Bye"}, the
\* call for hello has the key literal '0', the call for missing is as it
\* was, and missing is in missingTranslations.
C2_EndToEndExample ==
    (pc = "done" /\ IsExample) =>
        /\ Len(updated) = 3
        /\ DictionaryOf(updated[1].text, isEvalWrapped)
              = << <<<<"0">>, Hello>>, <<<<"1">>, Bye>> >>
        /\ DictionaryOf(updated[2].text, isEvalWrapped)
              = << <<<<"0">>, <<"H", "o", "l", "a">> >>, <<<<"1">>, Bye>> >>
        /\ updated[3].text = ChunkCode(UsesOrdinalMissing, isEvalWrapped)
        /\ Missing \in missingTranslations
\* The pass over the example has ended.
C2_ExampleDone == pc = "done" /\ IsExample /\ Len(updated) = 3

\* C3: a language chunk that lacks keys of the reference has, once
\* rewritten, exactly one entry per ordinal 0..N-1, N being the number of
\* keys of the index, and the entry holds a translation the chunk had for
\* the key of that ordinal or the fallback of that key.
C3_OneEntryPerOrdinal ==
    \A k \in 1..Len(parsedLanguageChunkInfos) :
        (/\ pc \in Optimized
         /\ Len(updated) >= k
         /\ ~(KeySet(translationKeyIndexMap)
                \subseteq NormalizedKeys(parsedLanguageChunkInfos[k].translations))) =>
            \A es \in {ScannedEntries(updated[k].text, isEvalWrapped)} :
                \A n \in 0..(Len(translationKeyIndexMap) - 1) :
                    /\ Cardinality({j \in 1..Len(es) : es[j].key = toString(n)}) = 1
                    /\ \A j \in 1..Len(es) :
                          es[j].key = toString(n) =>
                              \E key \in KeySet(translationKeyIndexMap) :
                                  /\ GetProperty(translationKeyIndexMap, key) = n
                                  /\ es[j].value \in
                                        OwnTranslations(
                                            parsedLanguageChunkInfos[k].translations, key)
                                        \cup {FallbackOf(fallbackTranslations, key)}
\* A chunk that lacked a key of the reference has been rewritten.
C3_LackingChunkRewritten ==
    \E k \in 1..Len(parsedLanguageChunkInfos) :
        /\ pc \in Optimized
        /\ Len(updated) >= k
        /\ ~(KeySet(translationKeyIndexMap)
               \subseteq NormalizedKeys(parsedLanguageChunkInfos[k].translations))

\* C4: after the pass, the entry expression finds in no rewritten language
\* chunk, and the usage expression in no rewritten other chunk, a key whose
\* normalized form is in the index.  A chunk whose source is a buffer is not
\* scanned and not rewritten.
C4_NoIndexedKeyRemains ==
    pc = "done" =>
        \A k \in 1..Len(updated) :
            IF k <= Len(parsedLanguageChunkInfos)
            THEN \A es \in {ScannedEntries(updated[k].text, isEvalWrapped)} :
                    \A j \in 1..Len(es) : ~HasProperty(translationKeyIndexMap, es[j].key)
            ELSE otherChunkInfos[k - Len(parsedLanguageChunkInfos)].isString =>
                    KeysOfSites(updated[k].text, isEvalWrapped,
                                UsageSites(updated[k].text, isEvalWrapped))
                    \cap KeySet(translationKeyIndexMap) = {}
\* A pass that replaced a key of a dictionary and a key of a call has ended.
C4_RewrittenPassDone ==
    /\ pc = "done"
    /\ \E k \in 1..Len(languageSources) : languageSources[k] # <<>>
    /\ \E k \in 1..Len(otherSources) : otherSources[k] # <<>>

\* C5: a usage site whose normalized key is not in the index has its key in
\* missingTranslations, no replacement touches it, and the rewritten text
\* holds at the site the characters the chunk held there.
C5_MissingSiteUntouched ==
    \A k \in 1..Len(otherChunkInfos) :
        (pc = "done" /\ Len(updated) >= Len(parsedLanguageChunkInfos) + k) =>
            \A sites \in {UsageSites(otherChunkInfos[k].code, isEvalWrapped)} :
                \A j \in 1..Len(sites) :
                    \A key \in {SiteKey(otherChunkInfos[k].code, isEvalWrapped, sites[j])} :
                        ~HasProperty(translationKeyIndexMap, key) =>
                            /\ key \in missingTranslations
                            /\ \A r \in 1..Len(otherSources[k]) :
                                  \/ otherSources[k][r].end < sites[j][1]
                                  \/ otherSources[k][r].start >= sites[j][3]
                            /\ SubSeq(updated[Len(parsedLanguageChunkInfos) + k].text,
                                      sites[j][1] + 1
                                          + ShiftBefore(otherSources[k], sites[j][1]),
                                      sites[j][3]
                                          + ShiftBefore(otherSources[k], sites[j][1]))
                                  = SubSeq(otherChunkInfos[k].code, sites[j][1] + 1,
                                           sites[j][3])
\* A chunk with a replaced call before a call for a missing key is rewritten.
C5_MissingSiteAfterEdit ==
    \E k \in 1..Len(otherChunkInfos) :
        /\ pc = "done"
        /\ Len(updated) >= Len(parsedLanguageChunkInfos) + k
        /\ otherSources[k] # <<>>
        /\ missingTranslations # {}
        /\ updated[Len(parsedLanguageChunkInfos) + k].text # otherChunkInfos[k].code

\* C6: when optimizeChunks has returned, unusedTranslations holds the keys
\* of the index that no usage site of any other chunk references, and only
\* those.
C6_UnusedAreTheUnreferenced ==
    pc \in Optimized =>
        unusedTranslations = KeySet(translationKeyIndexMap) \ ReferencedKeys
\* Some keys of the index are referenced and some are not.
C6_SomeUsedSomeUnused ==
    /\ pc \in Optimized
    /\ unusedTranslations # {}
    /\ unusedTranslations # KeySet(translationKeyIndexMap)

\* C7: normalizeString of the literal encodeAsStringLiteral makes of a
\* string equals normalizeString of the string, in both modes.
C7_RoundTrip == pc = "normalized" => normalized.literal = normalized.str
\* A string with a quote has been encoded and normalized.
C7_QuotedStringNormalized ==
    /\ pc = "normalized"
    /\ \E k \in 1..Len(str) : str[k] \in Quotes

\* C8: without language chunks the pass updates no chunk, emits no warning
\* and raises no error, whatever the other chunks are.
C8_NoLanguageChunksNoEffect ==
    Len(languageChunkInfos) = 0 =>
        /\ updated = <<>>
        /\ warnings = <<>>
        /\ errors = <<>>
        /\ pc \in {"processChunks", "done"}
\* A pass without language chunks and with two other chunks has ended.
C8_OnlyOtherChunksDone ==
    pc = "done" /\ Len(languageChunkInfos) = 0 /\ Len(otherChunkInfos) = 2

\* C9: with language chunks none of which is the reference, the pass ends
\* aborted with one error, updates no chunk and emits no warning.
C9_NoReferenceAborts ==
    NoReferenceChunk =>
        /\ updated = <<>>
        /\ warnings = <<>>
        /\ pc \in {"processChunks", "optimizeChunks", "aborted"}
        /\ Len(errors) = (IF pc = "aborted" THEN 1 ELSE 0)
\* The pass aborted for want of a reference, with other chunks to rewrite.
C9_ReferenceNotFoundReported ==
    /\ NoReferenceChunk
    /\ pc = "aborted"
    /\ errors = << <<ReferenceNotFound>> >>
    /\ Len(otherChunkInfos) > 0

\* C10: when a language chunk fails to parse, at whatever position, the pass
\* ends aborted with the parse error, updates no chunk and emits no warning.
C10_ParseFailureAborts ==
    \/ /\ updated = <<>>
       /\ warnings = <<>>
       /\ pc = "processChunks"
       /\ errors = <<>>
    \/ /\ updated = <<>>
       /\ warnings = <<>>
       /\ pc = "aborted"
       /\ errors = << <<FailedToParse, BundlingNote>> >>
    \/ \A k \in 1..Len(languageChunkInfos) : ~Unparsable(k)
\* The second language chunk failed to parse after the first was parsed.
C10_SecondChunkFailed ==
    /\ pc = "aborted"
    /\ Len(parsedLanguageChunkInfos) = 1
    /\ Len(languageChunkInfos) = 2
    /\ Unparsable(2)
    /\ Len(otherChunkInfos) > 0

\* The way a message would write the name of a language chunk.
NameText(filename) ==
    CASE filename = EnPo -> "en-po.js"
      [] filename = DePo -> "de-po.js"
      [] OTHER -> "?"
\* The language chunk parseLanguageChunk threw for: the one after the parsed.
FailedChunk == languageChunkInfos[Len(parsedLanguageChunkInfos) + 1]

\* C11: when the pass aborted because a language chunk failed to parse, the
\* error it reported names the file of that chunk: one of the parts the
\* message is made of is the filename of the chunk that failed.
C11_ParseErrorNamesFile ==
    (pc = "aborted" /\ errors[1][1] = FailedToParse) =>
        \E p \in 1..Len(errors[1]) : errors[1][p] = NameText(FailedChunk.filename)
\* The first language chunk failed to parse and the error was reported.
C11_FirstChunkFailed ==
    /\ pc = "aborted"
    /\ errors = << <<FailedToParse, BundlingNote>> >>
    /\ Len(parsedLanguageChunkInfos) = 0
    /\ FailedChunk.filename = DePo

\* The index and the fallbacks optimizeChunks builds from the reference among
\* the parsed language chunks.
ReferenceIndex ==
    BuildIndex(parsedLanguageChunkInfos[
                   ReferenceLanguageChunk(parsedLanguageChunkInfos)].translations)

\* C12: the index and the fallbacks are complete before the first edit is
\* recorded and fixed from then on: a step that records edits starts from the
\* index and the fallbacks built from the whole reference and leaves them as
\* they are, and a step that changes them happens with no edit recorded.
C12_IndexFixedBeforeEdits ==
    [][ /\ sources' # sources =>
              /\ index' = index
              /\ \E built \in {ReferenceIndex} : index = <<built.map, built.fallback>>
        /\ index' # index => sources' = << <<>>, <<>> >> ]_vars
\* Language chunks and other chunks were edited under an index of two keys.
C12_EditedUnderIndex ==
    /\ pc = "update"
    /\ Len(Keys(translationKeyIndexMap)) = 2
    /\ \E k \in 1..Len(languageSources) : languageSources[k] # <<>>
    /\ \E k \in 1..Len(otherSources) : otherSources[k] # <<>>

\* The parts of a warning message that list keys, as a set.
ListedIn(message) ==
    {message[p] : p \in {q \in 1..Len(message) : message[q].part # "hint"}}

\* C13: a pass emits a warning only at its end and at most one; a pass that
\* ran to its end without aborting emitted exactly one warning when a
\* translation is missing or unused and none when both sets are empty; the
\* warning lists the keys of each set that is not empty, and of no other, and
\* ends with the hint; no error is reported.
C13_OneWarningIffMissingOrUnused ==
    /\ Len(warnings) <= 1
    /\ pc # "done" => warnings = <<>>
    /\ pc = "done" =>
          /\ errors = <<>>
          /\ Len(warnings) = (IF missingTranslations = {} /\ unusedTranslations = {}
                              THEN 0 ELSE 1)
          /\ \A message \in {warnings[k] : k \in 1..Len(warnings)} :
                /\ ListedIn(message) =
                      {[part |-> "missing", keys |-> missingTranslations] :
                            x \in {1} \cap {IF missingTranslations # {} THEN 1 ELSE 0}}
                      \cup {[part |-> "unused", keys |-> unusedTranslations] :
                            x \in {1} \cap {IF unusedTranslations # {} THEN 1 ELSE 0}}
                /\ message[Len(message)].part = "hint"
                /\ Len(message) = Cardinality(ListedIn(message)) + 1
\* A pass ended with one warning that lists missing and unused translations.
C13_WarnedOfBoth ==
    /\ pc = "done"
    /\ missingTranslations # {}
    /\ unusedTranslations # {}
    /\ Len(warnings) = 1
    /\ Len(warnings[1]) = 3

\* The first of the literals a key operand concatenates.
FirstLiteral(operand, w) == MatchOf(matchString(AnyString, w), operand).text
\* The key operand of a usage site.
Operand(text, site) == SubSeq(text, site[2] + 1, site[3])
\* No replacement of rs touches the operand of site.
Untouched(rs, site) ==
    \A r \in 1..Len(rs) : rs[r].end < site[2] \/ rs[r].start >= site[3]
\* The usage sites of the other chunk at position k whose key operand
\* concatenates several literals.
ConcatenatedSites(k) ==
    {site \in {sites[j] : sites \in {UsageSites(otherChunkInfos[k].code, isEvalWrapped)},
                          j \in 1..Len(UsageSites(otherChunkInfos[k].code, isEvalWrapped))} :
        FirstLiteral(Operand(otherChunkInfos[k].code, site), isEvalWrapped)
            # Operand(otherChunkInfos[k].code, site)}

QuotedOrdinals ==
    {<<q>> \o toString(GetProperty(translationKeyIndexMap, key)) \o <<q>> :
        q \in Quotes, key \in KeySet(translationKeyIndexMap)}

\* C15: every replacement optimizeTranslationUsages records writes a number
\* of the index between quotes, the number being the ordinal of the key it
\* replaces, 0 as any other; none writes a number without quotes.
C15_UsageEditsWriteQuotedOrdinals ==
    \A k \in 1..Len(otherSources) :
        \A r \in 1..Len(otherSources[k]) :
            \A edit \in {otherSources[k][r]} :
                /\ edit.content \in QuotedOrdinals
                /\ SubSeq(edit.content, 2, Len(edit.content) - 1) =
                      toString(GetProperty(translationKeyIndexMap,
                          normalizeString(SubSeq(otherChunkInfos[k].code,
                                                 edit.start + 1, edit.end + 1),
                                          isEvalWrapped)))
\* A usage of the first key of the index was replaced by the quoted 0.
C15_OrdinalZeroWritten ==
    /\ pc = "done"
    /\ \E k \in 1..Len(otherSources) :
          \E r \in 1..Len(otherSources[k]) : otherSources[k][r].content = <<SQ, "0", SQ>>

\* The matches of the entry expression in the dictionary of a parsed chunk
\* whose normalized key the index lacks, as spans <<start, end>> of the chunk
\* code from the first character of the key to the last of the value.
StaleSpans(info, ms) ==
    {<<info.translationsCodePosition + ms[j][1], info.translationsCodePosition + ms[j][4]>> :
        j \in {n \in 1..Len(ms) :
                 ~HasProperty(translationKeyIndexMap,
                     normalizeString(SubSeq(info.translationsCode, ms[n][1] + 1, ms[n][2]),
                                     isEvalWrapped))}}
StaleEntries(info) ==
    StaleSpans(info, AllMatches(generateTranslationEntryRegex(isEvalWrapped),
                                info.translationsCode, 0))
\* The normalized keys of the entries the pass finds in a parsed chunk.
ScannedKeys(info) ==
    {es[j].key : es \in {ScannedEntries(info.translationsCode, isEvalWrapped)},
                 j \in 1..Len(ScannedEntries(info.translationsCode, isEvalWrapped))}
\* The insertions among the replacements rs.
InsertionsOf(rs) == {r \in 1..Len(rs) : rs[r].end < rs[r].start}

\* C20: an entry of a language chunk whose normalized key the index lacks is
\* touched by no replacement, the rewritten chunk holds its key, colon and
\* value as the chunk held them, and it stands for no key of the index: every
\* index key that is the normalized key of no entry of the chunk gets its
\* fallback inserted.
C20_StaleEntryUntouched ==
    \A k \in 1..Len(parsedLanguageChunkInfos) :
        (pc = "done" /\ Len(updated) >= k) =>
            /\ \A span \in StaleEntries(parsedLanguageChunkInfos[k]) :
                  /\ \A r \in 1..Len(languageSources[k]) :
                        \/ languageSources[k][r].end < span[1]
                        \/ languageSources[k][r].start >= span[2]
                  /\ SubSeq(updated[k].text,
                            span[1] + 1 + ShiftBefore(languageSources[k], span[1]),
                            span[2] + ShiftBefore(languageSources[k], span[1]))
                        = SubSeq(parsedLanguageChunkInfos[k].code, span[1] + 1, span[2])
            /\ Cardinality(InsertionsOf(languageSources[k]))
                  = Cardinality(KeySet(translationKeyIndexMap)
                                \ ScannedKeys(parsedLanguageChunkInfos[k]))
\* A chunk with an entry the index lacks after one it has was rewritten.
C20_StaleEntryAfterEdit ==
    \E k \in 1..Len(parsedLanguageChunkInfos) :
        /\ pc = "done"
        /\ Len(updated) >= k
        /\ \E span \in StaleEntries(parsedLanguageChunkInfos[k]) :
              \E r \in 1..Len(languageSources[k]) :
                  /\ languageSources[k][r].end >= languageSources[k][r].start
                  /\ languageSources[k][r].end < span[1]

\* The lower-case form of a name.
UpperCaseLetters == <<"D", "E", "P", "O">>
LowerCaseLetters == <<"d", "e", "p", "o">>
toLowerCase(name) ==
    [k \in 1..Len(name) |->
        IF \E n \in 1..Len(UpperCaseLetters) : UpperCaseLetters[n] = name[k]
        THEN LowerCaseLetters[CHOOSE n \in 1..Len(UpperCaseLetters) :
                                  UpperCaseLetters[n] = name[k]]
        ELSE name[k]]
\* The names <lang>-po.js, <lang>-po-legacy.js and the same with one segment
\* between -po or -po-legacy and .js: what follows the -po of the name.
LanguageFileEndings ==
    {<<".", "j", "s">>, <<"-", "l", "e", "g", "a", "c", "y", ".", "j", "s">>}
HasLanguageFileName(name) ==
    \E k \in 1..Len(name) :
        /\ k + 2 <= Len(name)
        /\ SubSeq(name, k, k + 2) = <<"-", "p", "o">>
        /\ \E ending \in LanguageFileEndings :
              \/ SubSeq(name, k + 3, Len(name)) = ending
              \/ \E n \in (k + 3)..Len(name) :
                    /\ n - (k + 3) = Len(ending) - 3
                    /\ SubSeq(name, k + 3, n - 1) = SubSeq(ending, 1, Len(ending) - 3)
                    /\ name[n] = "."
                    /\ \A j \in (n + 1)..(Len(name) - 3) : name[j] # "."
                    /\ Len(name) - 3 >= n
                    /\ SubSeq(name, Len(name) - 2, Len(name)) = <<".", "j", "s">>
\* The filenames of a list of chunks.
FilenamesOf(infos) == {infos[k].filename : k \in 1..Len(infos)}
\* The assets of the build that end in .js and are not the vendors chunk.
CategorizedAssets == {assets[k] : k \in {j \in 1..Len(assets) : IsCategorized(assets[j].filename)}}

\* C16, as stated: an asset is among the language chunks exactly when its
\* name, whatever the case of its letters, ends in -po or -po-legacy, at most
\* one segment and .js, and every other asset the loop does not skip is among
\* the other chunks.
C16_LanguageFilesWhateverTheCase ==
    \A a \in CategorizedAssets :
        /\ a.filename \in FilenamesOf(languageChunkInfos)
              <=> HasLanguageFileName(toLowerCase(a.filename))
        /\ a.filename \in FilenamesOf(otherChunkInfos)
              <=> ~HasLanguageFileName(toLowerCase(a.filename))
\* A build with a language file named in upper case went through the pass.
C16_UpperCaseNamePassed ==
    /\ pc = "done"
    /\ \E k \in 1..Len(assets) : assets[k].filename = DePoUpperCase

\* The positions of en in a name.
PositionsOfEn(name) ==
    {k \in 1..(Len(name) - 1) : SubSeq(name, k, k + 1) = <<"e", "n">>}
\* en with a dash or a dot right before it.
EnPreceded(name) ==
    \E k \in PositionsOfEn(name) : k > 1 /\ name[k - 1] \in {"-", "."}
\* en with a dash or a dot right after it and no letter, digit or underscore
\* right before it, in the last component of the path.
EnFollowed(filename) ==
    \E name \in {basename(filename)} :
        \E k \in PositionsOfEn(name) :
            /\ k + 2 <= Len(name) /\ name[k + 2] \in {"-", "."}
            /\ k > 1 => name[k - 1] \notin WordChars
\* The parsed chunk at position k is the one the index was built from.
IsReference(k) ==
    \E built \in {BuildIndex(parsedLanguageChunkInfos[k].translations)} :
        index = <<built.map, built.fallback>>

\* C17, as stated: once the index is built, it is built from a language chunk
\* whose name holds en right after a dash or a dot.
C17_ReferenceHasEnPreceded ==
    (pc \in Indexed /\ Len(parsedLanguageChunkInfos) > 0) =>
        \E k \in 1..Len(parsedLanguageChunkInfos) :
            EnPreceded(parsedLanguageChunkInfos[k].filename) /\ IsReference(k)
\* C17, as the code has it: once the index is built, it is built from the
\* first language chunk whose base name holds en at the start of a word and
\* right before a dash or a dot; and the pass aborts for want of a reference
\* only when no language chunk has such a name.
C17_ReferenceHasEnFollowed ==
    /\ (pc \in Indexed /\ Len(parsedLanguageChunkInfos) > 0) =>
          \E k \in 1..Len(parsedLanguageChunkInfos) :
              /\ EnFollowed(parsedLanguageChunkInfos[k].filename)
              /\ \A j \in 1..(k - 1) : ~EnFollowed(parsedLanguageChunkInfos[j].filename)
              /\ IsReference(k)
    /\ (pc = "aborted" /\ errors = << <<ReferenceNotFound>> >>) =>
          \A k \in 1..Len(parsedLanguageChunkInfos) :
              ~EnFollowed(parsedLanguageChunkInfos[k].filename)
\* The index was built from the second chunk, lang-en-po.js, the first being
\* green-po.js.
C17_SecondChunkIsReference ==
    /\ pc \in Indexed
    /\ Len(parsedLanguageChunkInfos) = 2
    /\ parsedLanguageChunkInfos[1].filename = GreenPo
    /\ parsedLanguageChunkInfos[2].filename = LangEnPo
    /\ IsReference(2)
    /\ ~IsReference(1)

\* The texts updateChunk was handed for a filename.
UpdatedTexts(filename) ==
    {updated[k].text : k \in {j \in 1..Len(updated) : updated[j].filename = filename}}
\* An asset among the other chunks none of whose call sites has a key of the
\* index.
HasNoRewritableSite(a) ==
    /\ IsCategorized(a.filename)
    /\ ~IsLanguageFile(a.filename)
    /\ KeysOfSites(a.code, isEvalWrapped, UsageSites(a.code, isEvalWrapped))
          \cap KeySet(translationKeyIndexMap) = {}

\* C18: after the pass, an asset the loop over the assets skips was handed
\* to updateChunk with no text, and a binary chunk or an other chunk without
\* a call site for a key of the index was handed to it with no text but its
\* own: the text of each is what it was.
C18_UntouchedAssetsKeepTheirText ==
    pc = "done" =>
        \A a \in {assets[k] : k \in 1..Len(assets)} :
            /\ ~IsCategorized(a.filename) => UpdatedTexts(a.filename) = {}
            /\ (~a.isString \/ HasNoRewritableSite(a)) =>
                  UpdatedTexts(a.filename) \subseteq {a.code}
\* A pass that rewrote a chunk ended with a style sheet and the vendors chunk
\* skipped and a binary chunk updated with its own bytes.
C18_SkippedAndBinaryPassed ==
    /\ pc = "done"
    /\ \E k \in 1..Len(assets) : assets[k].filename = AppCss
    /\ \E k \in 1..Len(assets) : assets[k].filename = ChunkVendorsJs
    /\ UpdatedTexts(LibJs) = {UsesHello}
    /\ \E k \in 1..Len(otherSources) : otherSources[k] # <<>>

\* node runs a build tool, which loads the main module.
LoadedByBuildTool == Len(argv) >= 2 /\ argv[2] # IndexJs
\* The path of an output file: with an extension, in a directory that
\* exists, without build and without serve in it.
IsOutputFilePath(p) ==
    /\ extname(p) # <<>>
    /\ dirname(p) \in directories
    /\ ~includes(p, <<"b", "u", "i", "l", "d">>)
    /\ ~includes(p, <<"s", "e", "r", "v", "e">>)

\* C19: whatever the command line of a build tool that loaded the main
\* module, the module exports the function and has not started the
\* extractor; the function called without a source returned the plugin and
\* called with the text of a source returned what the loader gives for it;
\* and the extractor was started only with the path of an output file for
\* second argument.
C19_BuildToolsGetTheFunction ==
    pc \in {"loaded", "called"} =>
        /\ LoadedByBuildTool => exports = "function" /\ ~extractor
        /\ extractor => Len(argv) >= 3 /\ IsOutputFilePath(argv[3])
        /\ (pc = "called" /\ exports = "function") =>
              \A call \in {returned[1]} :
                  /\ ~call.source.given => call.value = "plugin"
                  /\ (call.source.given /\ call.source.text # <<>>) =>
                        call.value = "loader(source)"
\* webpack was run with --config=webpack.config.js and its configuration
\* called what the main module exports.
C19_ConfigOptionWithValue ==
    /\ pc = "called"
    /\ argv[2] = Webpack
    /\ Len(argv) = 3
    /\ argv[3] = ConfigOption \o <<"=">> \o ConfigFile
    /\ returned[1].value = "TypeError"
    /\ extractor

\* The entries the pass finds in the dictionary of a parsed chunk whose key
\* the index has, each with its normalized key, its normalized value and the
\* span <<start, end>> of its value in the chunk code.
IndexedValues(info, ms) ==
    {[key |-> normalizeString(SubSeq(info.translationsCode, ms[j][1] + 1, ms[j][2]),
                              isEvalWrapped),
      value |-> normalizeString(SubSeq(info.translationsCode, ms[j][3] + 1, ms[j][4]),
                                isEvalWrapped),
      start |-> info.translationsCodePosition + ms[j][3],
      end |-> info.translationsCodePosition + ms[j][4] - 1] : j \in 1..Len(ms)}
IndexedEntries(info) ==
    {e \in IndexedValues(info, AllMatches(generateTranslationEntryRegex(isEvalWrapped),
                                          info.translationsCode, 0)) :
        HasProperty(translationKeyIndexMap, e.key)}

\* C21: in both modes, an entry of a language chunk whose key the index has
\* and whose value is the empty string has its value replaced by the literal
\* of the fallback of the key, or of the key where the fallback is empty; an
\* entry with another value has no replacement on its value.
C21_EmptyValuesGetFallback ==
    \A k \in 1..Len(languageSources) :
        \A e \in IndexedEntries(parsedLanguageChunkInfos[k]) :
            IF e.value = <<>>
            THEN \E r \in 1..Len(languageSources[k]) :
                    languageSources[k][r] =
                        Replacement(e.start, e.end,
                            encodeAsStringLiteral(
                                FallbackOf(fallbackTranslations, e.key), isEvalWrapped))
            ELSE \A r \in 1..Len(languageSources[k]) :
                    \/ languageSources[k][r].end < e.start
                    \/ languageSources[k][r].start > e.end
\* A chunk with the empty values "" and '' was rewritten in the wrapped mode.
C21_EmptyValuesWrapped ==
    /\ isEvalWrapped
    /\ Len(languageSources) = 2
    /\ parsedLanguageChunkInfos[2].translations
          = << <<<<"a">>, <<>>>>, <<<<"c">>, <<>>>> >>

\* The dictionary of a parsed chunk as the engine reads it, without its
\* closing brace and the white space before it.
RECURSIVE TrimEnd(_)
TrimEnd(text) ==
    IF text # <<>> /\ text[Len(text)] \in WhiteSpace
    THEN TrimEnd(SubSeq(text, 1, Len(text) - 1)) ELSE text
BeforeClosingBrace(info) ==
    TrimEnd(IF isEvalWrapped
            THEN Unescape(SubSeq(info.translationsCode, 1, Len(info.translationsCode) - 1))
            ELSE SubSeq(info.translationsCode, 1, Len(info.translationsCode) - 1))
\* A comma precedes the closing brace of the dictionary.
EndsWithComma(info) ==
    \E text \in {BeforeClosingBrace(info)} : text # <<>> /\ text[Len(text)] = ","
\* The keys of the index the pass finds no entry for in a parsed chunk, in
\* the order of the index.
KeysNotIn(seen) == SelectSeq(Keys(translationKeyIndexMap), LAMBDA key : key \notin seen)
\* The insertions among the replacements rs, in the order recorded.
InsertionsIn(rs) == SelectSeq(rs, LAMBDA r : r.end < r.start)
\* The entry synthesized for key, the n-th of a dictionary that ends with a
\* comma or not.
Synthesized(key, n, endsWithComma) ==
    (IF n = 1 /\ endsWithComma THEN <<>> ELSE <<",">>)
    \o toString(GetProperty(translationKeyIndexMap, key)) \o <<":">>
    \o encodeAsStringLiteral(FallbackOf(fallbackTranslations, key), isEvalWrapped)
\* ins are the insertions for the keys unseen in info.
AreSynthesizedFor(ins, unseen, info, endsWithComma) ==
    /\ Len(ins) = Len(unseen)
    /\ \A n \in 1..Len(ins) :
          ins[n] = Insertion(info.translationsCodePosition + Len(info.translationsCode) - 1,
                             Synthesized(unseen[n], n, endsWithComma))

\* C22: for every language chunk, the insertions are one per index key the
\* chunk has no entry for, in the order of the index, each right before the
\* closing brace of the dictionary and of the form ordinal:fallback; the first
\* begins with a comma exactly when no comma precedes the closing brace, and
\* every other begins with one comma.
C22_OneInsertionPerUnseenKey ==
    \A k \in 1..Len(languageSources) :
        AreSynthesizedFor(InsertionsIn(languageSources[k]),
                          KeysNotIn(ScannedKeys(parsedLanguageChunkInfos[k])),
                          parsedLanguageChunkInfos[k],
                          EndsWithComma(parsedLanguageChunkInfos[k]))
\* Two entries were inserted into a dictionary that ends with a comma and a
\* line break.
C22_InsertedAfterCommaAndNewline ==
    /\ Len(languageSources) = 2
    /\ parsedLanguageChunkInfos[2].code = ChunkCode(<<"e", "=">> \o CommaAndNewline \o <<";">>,
                                                    isEvalWrapped)
    /\ Len(InsertionsIn(languageSources[2])) = 2

\* The replacements among rs that are no insertions, in the order recorded.
ReplacementsIn(rs) == SelectSeq(rs, LAMBDA r : r.end >= r.start)
\* Each span of rs ends before the next of rs begins.
InIncreasingOrder(rs) == \A n \in 1..(Len(rs) - 1) : rs[n].end < rs[n + 1].start
\* The spans <<start, end>> in the code of a parsed chunk of the key tokens
\* and of the value tokens of two characters that the entry expression finds.
TokenSpans(info, ms) ==
    {<<info.translationsCodePosition + ms[j][1],
       info.translationsCodePosition + ms[j][2] - 1>> : j \in 1..Len(ms)}
    \cup {<<info.translationsCodePosition + ms[j][3],
            info.translationsCodePosition + ms[j][4] - 1>> :
          j \in {n \in 1..Len(ms) : ms[n][4] - ms[n][3] = 2}}
EntryTokenSpans(info) ==
    TokenSpans(info, AllMatches(generateTranslationEntryRegex(isEvalWrapped),
                                info.translationsCode, 0))
\* The spans of the key operands the usage expression finds in a text.
OperandSpans(sites) == {<<sites[j][2], sites[j][3] - 1>> : j \in 1..Len(sites)}
\* The replacements rs, known to lie in increasing order, have the spans of
\* tokens, and the insertions lie at pos.
EditsOfTokens(rs, spans, pos) ==
    /\ InIncreasingOrder(ReplacementsIn(rs))
    /\ \A n \in 1..Len(rs) :
          IF rs[n].end >= rs[n].start
          THEN <<rs[n].start, rs[n].end>> \in spans /\ rs[n].end < pos
          ELSE rs[n].start = pos

\* C23: the edits of every chunk are positions in the code the chunk came
\* with; the replacements lie one after the other in the order recorded,
\* none touching another, each over exactly a key token or an empty value
\* token of a dictionary entry or the key operand of a usage site; the
\* insertions lie at the closing brace of the dictionary, after every
\* replacement.
C23_EditsAreDisjointTokenSpans ==
    /\ \A k \in 1..Len(languageSources) :
          EditsOfTokens(languageSources[k], EntryTokenSpans(parsedLanguageChunkInfos[k]),
                        parsedLanguageChunkInfos[k].translationsCodePosition
                            + Len(parsedLanguageChunkInfos[k].translationsCode) - 1)
    /\ \A k \in 1..Len(otherSources) :
          EditsOfTokens(otherSources[k],
                        OperandSpans(UsageSites(otherChunkInfos[k].code, isEvalWrapped)),
                        Len(otherChunkInfos[k].code))
\* A dictionary got a replacement and then an insertion, and a chunk that
\* uses translations got a replacement.
C23_ReplacedThenInserted ==
    /\ \E k \in 1..Len(languageSources) :
          /\ ReplacementsIn(languageSources[k]) # <<>>
          /\ InsertionsIn(languageSources[k]) # <<>>
    /\ \E k \in 1..Len(otherSources) : otherSources[k] # <<>>

\* The file names of the chunks of a pass in the order of the update loop.
UpdateOrder ==
    [k \in 1..(Len(languageChunkInfos) + Len(otherChunkInfos)) |->
        IF k <= Len(languageChunkInfos)
        THEN languageChunkInfos[k].filename
        ELSE otherChunkInfos[k - Len(languageChunkInfos)].filename]
\* The edits of every chunk of the pass have been computed.
AllEditsComputed ==
    /\ Len(parsedLanguageChunkInfos) = Len(languageChunkInfos)
    /\ Len(languageSources) = Len(languageChunkInfos)
    /\ Len(otherSources) = Len(otherChunkInfos)
\* The pass ran to its end: it had language chunks and caught no error.
PassCompleted == pc = "done" /\ errors = <<>> /\ languageChunkInfos # <<>>

HashedChunks ==
    IF pc = "chunkHash" THEN 1..(i - 1)
    ELSE IF pc = "done" /\ (~compilation.hasOptions \/ ~compilation.realContentHash)
         THEN 1..Len(chunks) ELSE {}
\* The name is that of the chunk of the reference language: en-po, alone or
\* after a character that is no word character.
IsEnPoName(name) ==
    \E k \in 0..Len(name) :
        /\ SubSeq(name, k + 1, Len(name)) = <<"e", "n", "-", "p", "o">>
        /\ (k = 0 \/ name[k] \notin WordChars)
\* The hashes of the modules of the reference language.
ReferenceHashes ==
    {compilation.modules[k].hash :
        k \in {j \in 1..Len(compilation.modules) :
                   endsWith(compilation.modules[j].resource, <<"/", "e", "n", ".", "p", "o">>)
                   \/ compilation.modules[j].resource = <<"e", "n", ".", "p", "o">>}}

\* C25: of the chunks the chunkHash hook was called for, one whose name ends
\* in -po and is not that of the reference chunk has its hash updated once,
\* with the hash of a reference language module, when there is such a
\* module; without one an error is recorded and the hash is not updated;
\* the hash of every other chunk is not updated.
C25_HashUpdatedForTranslationChunksOnly ==
    \A k \in HashedChunks :
        IF endsWith(chunks[k], <<"-", "p", "o">>) /\ ~IsEnPoName(chunks[k])
        THEN IF ReferenceHashes # {}
             THEN Len(chunkHashes[k]) = 1 /\ chunkHashes[k][1] \in ReferenceHashes
             ELSE errors # <<>> /\ chunkHashes[k] = <<>>
        ELSE chunkHashes[k] = <<>>
\* The hook was called for a translation chunk and for the reference chunk
\* of a compilation without a reference language module.
C25_HashedWithoutReferenceModule ==
    /\ pc = "done"
    /\ ReferenceHashes = {}
    /\ errors # <<>>
    /\ \E k \in HashedChunks : chunks[k] = <<"d", "e", "-", "p", "o">>
    /\ \E k \in HashedChunks : chunks[k] = <<"e", "n", "-", "p", "o">>

\* A tag is being handled in the step.
TagHandled == pc = "parse" /\ i <= Len(events) /\ i' = i + 1
\* The number of elements open after the first n tags of the file, with
\* end tags that close nothing left out.
RECURSIVE OpenElements(_)
OpenElements(n) ==
    IF n = 0 THEN 0
    ELSE IF events[n].isStart
         THEN IF events[n].selfClosing \/ events[n].tagName \in selfClosingTags
              THEN OpenElements(n - 1) ELSE OpenElements(n - 1) + 1
         ELSE IF OpenElements(n - 1) > 0 THEN OpenElements(n - 1) - 1 ELSE 0

\* C26: while the tags of a vue file are handled, depth is never negative;
\* the start of a section is set only by the start tag of that name seen at
\* depth 0, its end only by the end tag of that name that brings depth to 0;
\* a start tag that is self-closing or of a void element leaves depth as it
\* is; and a template or script tag inside an open element leaves the
\* section locations as they are.
C26_SectionsFromTopLevelTags ==
    /\ [](depth >= 0)
    /\ [][TagHandled =>
            /\ \A name \in SectionNames :
                  /\ sectionLocations'[name].start # sectionLocations[name].start
                        => events[i] = StartTag(name, events[i].selfClosing) /\ depth = 0
                  /\ sectionLocations'[name].end # sectionLocations[name].end
                        => (events[i] = EndTag(name) /\ depth' = 0)
                           \/ (events[i].isStart /\ events[i].tagName = name /\ depth = 0)
            /\ events[i].isStart /\ (events[i].selfClosing \/ events[i].tagName \in selfClosingTags)
                  => depth' = depth
            /\ events[i].isStart /\ events[i].tagName \in SectionNames /\ OpenElements(i - 1) > 0
                  => sectionLocations' = sectionLocations]_vars
\* An end tag that closes nothing has been handled: depth is negative, and
\* the template that starts after it is in no section location.
C26_TemplateAfterStrayEndTag ==
    /\ pc = "end"
    /\ depth < 0
    /\ \E n \in 2..Len(events) : events[n] = StartTag("template", FALSE) /\ OpenElements(n - 1) = 0
    /\ sectionLocations["template"].isNull

\* The language chunks whose edits are recorded and that are the reference.
RewrittenReferences ==
    {k \in 1..Len(languageSources) : k = ReferenceLanguageChunk(parsedLanguageChunkInfos)}

\* C27: the keys of the reference chunk normalized from its dictionary text
\* are the keys normalized from its parsed dictionary; every key found in its
\* text, and every empty value, is replaced, and no fallback is inserted
\* into it.
C27_ReferenceKeysNormalizeAlike ==
    \A k \in RewrittenReferences :
        /\ ScannedKeys(parsedLanguageChunkInfos[k])
              = NormalizedKeys(parsedLanguageChunkInfos[k].translations)
        /\ InsertionsIn(languageSources[k]) = <<>>
        /\ \A span \in EntryTokenSpans(parsedLanguageChunkInfos[k]) :
              \E n \in 1..Len(languageSources[k]) :
                  <<languageSources[k][n].start, languageSources[k][n].end>> = span
\* The reference chunk has a key with quotes inside its quotes, and a
\* fallback has been inserted into it.
C27_FallbackInsertedIntoReference ==
    \E k \in RewrittenReferences :
        /\ \E j \in 1..Len(parsedLanguageChunkInfos[k].translations) :
              parsedLanguageChunkInfos[k].translations[j][1] = <<SQ, "a", SQ>>
        /\ InsertionsIn(languageSources[k]) # <<>>

\* A text without its whitespace: without the whitespace characters and, in
\* wrapped mode, without the escape sequences of whitespace characters.
RECURSIVE WithoutWhitespace(_, _)
WithoutWhitespace(text, w) ==
    IF text = <<>> THEN <<>>
    ELSE IF Head(text) \in WhiteSpace THEN WithoutWhitespace(Tail(text), w)
    ELSE IF w /\ Len(text) >= 2 /\ text[1] = BS /\ text[2] \in {"n", "r", "t", "v", "f"}
         THEN WithoutWhitespace(Tail(Tail(text)), w)
    ELSE <<Head(text)>> \o WithoutWhitespace(Tail(text), w)
\* The text has a comma where the entry grammar has none: right after an
\* opening brace or after another comma.
HasStrayComma(text) == includes(text, <<"{", ",">>) \/ includes(text, <<",", ",">>)

\* C28: the text of a rewritten language chunk has no comma right after an
\* opening brace and no two commas in a row, whitespace aside.
C28_RewrittenDictionaryWellFormed ==
    \A k \in 1..Len(updated) :
        k <= Len(parsedLanguageChunkInfos)
            => ~HasStrayComma(WithoutWhitespace(updated[k].text, isEvalWrapped))
\* An empty dictionary has been rewritten with fallbacks inserted.
C28_FallbacksInsertedIntoEmpty ==
    \E k \in 1..Len(updated) :
        /\ k <= Len(parsedLanguageChunkInfos)
        /\ parsedLanguageChunkInfos[k].translationsCode = <<"{", "}">>
        /\ InsertionsIn(languageSources[k]) # <<>>

\* The calls of $t, $tc and $te in a text: the matches of the first
\* alternative of the usage expression followed by a key.
DirectCalls(text, w) ==
    AllMatches(<<generateTranslationUsageRegex(w)[1].ps[1], generateTranslationUsageRegex(w)[2]>>,
               text, 0)
\* The call site is rewritten by rs to the quoted ordinal of its key.
IsRewritten(site, key, rs) ==
    \E n \in 1..Len(rs) :
        rs[n] = Replacement(site[2], site[3] - 1,
                            <<SQ>> \o toString(GetProperty(translationKeyIndexMap, key)) \o <<SQ>>)
CallsRewritten(text, sites, rs) ==
    \A n \in 1..Len(sites) :
        HasProperty(translationKeyIndexMap, SiteKey(text, isEvalWrapped, sites[n]))
            => IsRewritten(sites[n], SiteKey(text, isEvalWrapped, sites[n]), rs)

\* C29: in every chunk that uses translations, every call of $t, $tc or $te
\* whose key is in the index is rewritten to the quoted ordinal of the key,
\* wherever in the chunk the call stands.
C29_EveryDirectCallRewritten ==
    \A k \in 1..Len(otherSources) :
        otherChunkInfos[k].isString
            => CallsRewritten(otherChunkInfos[k].code,
                              DirectCalls(otherChunkInfos[k].code, isEvalWrapped),
                              otherSources[k])
\* The chunk with a call inside the props of an i18n-t component and the
\* chunk with a call between the marker of an i18n component and its path
\* have been handled: each has one replacement, on its keypath or path.
C29_PathsRewrittenAroundCalls ==
    /\ Len(otherSources) = 2
    /\ RunCode(otherChunkInfos[1].code, isEvalWrapped) = UsesInsideComponent
    /\ RunCode(otherChunkInfos[2].code, isEvalWrapped) = UsesBeforePath
    /\ \A k \in 1..2 :
          /\ Len(otherSources[k]) = 1
          /\ otherSources[k][1].content = <<SQ, "0", SQ>>
          /\ otherSources[k][1].start > Len(otherChunkInfos[k].code) - 8

\* The language chunks of the pass whose name is that of a reference.
ReferenceCandidates ==
    {k \in 1..Len(parsedLanguageChunkInfos) :
        IsReferenceName(basename(parsedLanguageChunkInfos[k].filename))}
\* The first of them in the order of the assets.
FirstCandidate == CHOOSE k \in ReferenceCandidates : \A j \in ReferenceCandidates : k <= j
\* Every key of the index map that the matches ms of the entry expression
\* find in the chunk is replaced in rs by its ordinal in map.
KeysRewrittenWith(info, map, rs, ms) ==
    \A j \in 1..Len(ms) :
        \E key \in {normalizeString(SubSeq(info.translationsCode, ms[j][1] + 1, ms[j][2]),
                                    isEvalWrapped)} :
            HasProperty(map, key) =>
                \E n \in 1..Len(rs) :
                    rs[n] = Replacement(info.translationsCodePosition + ms[j][1],
                                        info.translationsCodePosition + ms[j][2] - 1,
                                        toString(GetProperty(map, key)))

\* C30: in a pass with several language chunks named as a reference, the
\* index and the fallbacks are those of the first of them in the order of
\* the assets, no error is recorded, every language chunk is rewritten with
\* the ordinals of that index, and the pass that ends has updated every
\* chunk.
C30_FirstCandidateIsReference ==
    (pc \in Indexed /\ Cardinality(ReferenceCandidates) >= 2) =>
        /\ index = <<BuildIndex(parsedLanguageChunkInfos[FirstCandidate].translations).map,
                     BuildIndex(parsedLanguageChunkInfos[FirstCandidate].translations).fallback>>
        /\ errors = <<>>
        /\ \A k \in 1..Len(languageSources) :
              KeysRewrittenWith(parsedLanguageChunkInfos[k],
                                BuildIndex(parsedLanguageChunkInfos[FirstCandidate].translations).map,
                                languageSources[k],
                                AllMatches(generateTranslationEntryRegex(isEvalWrapped),
                                           parsedLanguageChunkInfos[k].translationsCode, 0))
        /\ pc = "done" => Len(updated) = Len(UpdateOrder)
\* A pass with two chunks named as a reference, with dictionaries in
\* different orders, has ended with all chunks updated.
C30_TwoCandidatesUpdated ==
    /\ pc = "done"
    /\ Cardinality(ReferenceCandidates) = 2
    /\ \E j, k \in ReferenceCandidates :
          parsedLanguageChunkInfos[j].translations # parsedLanguageChunkInfos[k].translations
    /\ FirstCandidate > 1
    /\ Len(updated) = Len(UpdateOrder)

=============================================================================
